---------------------------- MODULE Spec2Model ----------------------------
(***************************************************************************)
(* A model of the pop3-codec crate: the POP3 command parser and serializer *)
(* (parse/command.rs, types/command.rs), the response parsers              *)
(* (parse/response.rs, parse/mod.rs) and the capability serializer         *)
(* (types/response.rs).                                                    *)
(*                                                                         *)
(* Bytes are integers 0..255 and byte slices are sequences of bytes.  A    *)
(* Rust String is modelled by its UTF-8 bytes.  A nom IResult is a record  *)
(* [kind, rem, val] with kind "Ok", or [kind] with kind "Incomplete"       *)
(* (nom::Err::Incomplete) or "Error" (nom::Err::Error).  The nom streaming *)
(* combinators are modelled as nom 7 implements them.                      *)
(***************************************************************************)
EXTENDS Integers, Sequences, FiniteSets, TLC

VARIABLES
    pc,        \* position of the caller
    entry,     \* the entry point the caller invokes
    input,     \* the byte slice handed to the entry point
    value,     \* the typed value handed to a serializer
    wire,      \* bytes produced by a serializer
    result,    \* the IResult of the last parse
    cut,       \* length of the truncated slice of the re-parse
    result2,   \* the IResult of the re-parse
    client,    \* session: the messages of the client buffer, in order
    server,    \* session: the messages of the server buffer, in order
    rem_client,\* session: the unparsed rest of the client buffer
    rem_server,\* session: the unparsed rest of the server buffer
    step,      \* session: number of messages parsed from the client buffer
    last       \* session: the command returned by the last command() call

vars == <<pc, entry, input, value, wire, result, cut, result2,
          client, server, rem_client, rem_server, step, last>>

-----------------------------------------------------------------------------
(* Bytes and byte strings *)

CR == 13
LF == 10

\* The printable ASCII characters 0x20..0x5F and 0x61..0x7E in order (a
\* string literal cannot hold 0x60).
PrintableLow == " !\"#$%&'()*+,-./0123456789:;<=>?@ABCDEFGHIJKLMNOPQRSTUVWXYZ[\\]^_"
PrintableHigh == "abcdefghijklmnopqrstuvwxyz{|}~"

\* The one-character string of a printable byte.
CharOf(b) ==
    IF b < 96 THEN SubSeq(PrintableLow, b - 31, b - 31)
    ELSE SubSeq(PrintableHigh, b - 96, b - 96)

\* The byte of each one-character string.
ByteOf ==
    LET Printable == (32..95) \cup (97..126) IN
    [c \in {CharOf(b) : b \in Printable} |->
        CHOOSE b \in Printable : CharOf(b) = c]

Ord(c) == ByteOf[c]

\* The bytes of an ASCII string literal (b"...").
B(s) == [i \in 1..Len(s) |-> Ord(SubSeq(s, i, i))]

CRLF == <<CR, LF>>

Take(s, n) == SubSeq(s, 1, n)
Drop(s, n) == SubSeq(s, n + 1, Len(s))

MinOf(S) == CHOOSE x \in S : \A y \in S : x <= y

\* The element of a one-element set.  The({e : x \in {v}}) is e with x bound
\* to the value of v: a let binding that evaluates v once.  A chain of such
\* bindings reads from its last line up: the outermost binding, which the
\* code computes first, is the last line.
The(S) == CHOOSE x \in S : TRUE

RECURSIVE Concat(_)
\* The concatenation of a sequence of byte strings.
Concat(ss) == IF ss = <<>> THEN <<>> ELSE Head(ss) \o Concat(Tail(ss))

RECURSIVE Join(_, _)
\* [String]::join(sep)
Join(ss, sep) ==
    IF ss = <<>> THEN <<>>
    ELSE IF Len(ss) = 1 THEN Head(ss)
    ELSE Head(ss) \o sep \o Join(Tail(ss), sep)

-----------------------------------------------------------------------------
(* IResult and Option *)

Ok(rem, val) == [kind |-> "Ok", rem |-> rem, val |-> val]
Incomplete == [kind |-> "Incomplete"]
Error == [kind |-> "Error"]

IsOk(r) == r.kind = "Ok"

None == [some |-> FALSE]
Some(v) == [some |-> TRUE, v |-> v]

\* opt that takes Incomplete for an absent element
opt_complete(r, i) ==
    IF r.kind = "Ok" THEN Ok(r.rem, Some(r.val)) ELSE Ok(i, None)

\* nom::combinator::opt applied to the result r of its parser on input i.
opt(r, i) ==
    IF r.kind = "Error" THEN Ok(i, None)
    ELSE IF r.kind = "Ok" THEN Ok(r.rem, Some(r.val))
    ELSE r

\* nom::combinator::value / map: replace the value of a successful result.
map_to(r, v) == IF IsOk(r) THEN Ok(r.rem, v) ELSE r

-----------------------------------------------------------------------------
(* std::str::from_utf8 *)

IsCont(b) == b \in 128..191

RECURSIVE is_utf8(_)
\* Whether the bytes are well-formed UTF-8 (core::str::from_utf8 succeeds).
is_utf8(s) ==
    IF s = <<>> THEN TRUE
    ELSE LET b == s[1] n == Len(s) IN
      IF b < 128 THEN is_utf8(Drop(s, 1))
      ELSE IF b \in 194..223
        THEN n >= 2 /\ IsCont(s[2]) /\ is_utf8(Drop(s, 2))
      ELSE IF b \in 224..239
        THEN /\ n >= 3
             /\ IF b = 224 THEN s[2] \in 160..191
                ELSE IF b = 237 THEN s[2] \in 128..159
                ELSE IsCont(s[2])
             /\ IsCont(s[3])
             /\ is_utf8(Drop(s, 3))
      ELSE IF b \in 240..244
        THEN /\ n >= 4
             /\ IF b = 240 THEN s[2] \in 144..191
                ELSE IF b = 244 THEN s[2] \in 128..143
                ELSE IsCont(s[2])
             /\ IsCont(s[3])
             /\ IsCont(s[4])
             /\ is_utf8(Drop(s, 4))
      ELSE FALSE

\* map_res(p, from_utf8) applied to the result r of p: the String keeps the
\* bytes, malformed UTF-8 is nom::Err::Error.
from_utf8(r) ==
    IF IsOk(r) /\ ~is_utf8(r.val) THEN Error ELSE r

-----------------------------------------------------------------------------
(* nom streaming primitives *)

lowercase_byte(b) == IF b \in 65..90 THEN b + 32 ELSE b

\* <&[u8] as Compare>::compare
compare(i, t) ==
    IF \E k \in 1..Len(t) : k <= Len(i) /\ i[k] # t[k] THEN "Error"
    ELSE IF Len(i) < Len(t) THEN "Incomplete"
    ELSE "Ok"

\* compare_no_case that looks at the lengths before the bytes
compare_no_case_length_first(i, t) ==
    IF Len(i) < Len(t) THEN "Incomplete"
    ELSE IF \E k \in 1..Len(t) : lowercase_byte(i[k]) # lowercase_byte(t[k])
    THEN "Error"
    ELSE "Ok"

\* <&[u8] as Compare>::compare_no_case
compare_no_case(i, t) ==
    IF \E k \in 1..Len(t) :
          k <= Len(i) /\ lowercase_byte(i[k]) # lowercase_byte(t[k])
    THEN "Error"
    ELSE IF Len(i) < Len(t) THEN "Incomplete"
    ELSE "Ok"

\* nom::bytes::streaming::tag
tag(t, i) ==
    The({IF c = "Ok" THEN Ok(Drop(i, Len(t)), Take(i, Len(t)))
    ELSE IF c = "Incomplete" THEN Incomplete
    ELSE Error
    : c \in {compare(i, t)}})

\* nom::bytes::streaming::tag_no_case
tag_no_case(t, i) ==
    The({IF c = "Ok" THEN Ok(Drop(i, Len(t)), Take(i, Len(t)))
    ELSE IF c = "Incomplete" THEN Incomplete
    ELSE Error
    : c \in {compare_no_case(i, t)}})

\* InputTakeAtPosition: index of the first byte outside the set S, 0 for none.
position(S, i) ==
    The({IF out = {} THEN 0 ELSE MinOf(out)
    : out \in {{k \in 1..Len(i) : i[k] \notin S}}})

\* nom::bytes::streaming::take_while(|b| b in S)
take_while(S, i) ==
    The({IF p = 0 THEN Incomplete ELSE Ok(Drop(i, p - 1), Take(i, p - 1))
    : p \in {position(S, i)}})

\* nom::bytes::streaming::take_while1(|b| b in S)
take_while1(S, i) ==
    The({IF p = 0 THEN Incomplete
    ELSE IF p = 1 THEN Error
    ELSE Ok(Drop(i, p - 1), Take(i, p - 1))
    : p \in {position(S, i)}})

\* nom::bytes::streaming::take_till(|b| b in S)
take_till(S, i) == take_while(0..255 \ S, i)

\* nom::bytes::streaming::take_while_m_n(m, n, |b| b in S)
take_while_m_n(m, n, S, i) ==
    The({IF p # 0 THEN
        IF p - 1 >= m
        THEN (IF p - 1 <= n THEN Ok(Drop(i, p - 1), Take(i, p - 1))
              ELSE Ok(Drop(i, n), Take(i, n)))
        ELSE Error
    ELSE IF Len(i) >= n THEN Ok(Drop(i, n), Take(i, n))
    ELSE Incomplete
    : p \in {position(S, i)}})

\* nom::character::streaming::line_ending
line_ending(i) ==
    The({IF c = "Ok" THEN Ok(Drop(i, 1), Take(i, 1))
    ELSE IF c = "Incomplete" THEN Incomplete
    ELSE The({IF d = "Ok" THEN Ok(Drop(i, 2), Take(i, 2))
         ELSE IF d = "Incomplete" THEN Incomplete
         ELSE Error
         : d \in {compare(i, CRLF)}})
    : c \in {compare(i, <<LF>>)}})

\* nom::character::streaming::not_line_ending
not_line_ending(i) ==
    The({IF p = 0 THEN Incomplete
    ELSE IF i[p] = CR THEN
        The({IF c = "Ok" THEN Ok(Drop(i, p - 1), Take(i, p - 1))
        ELSE IF c = "Incomplete" THEN Incomplete
        ELSE Error
        : c \in {compare(Drop(i, p - 1), CRLF)}})
    ELSE Ok(Drop(i, p - 1), Take(i, p - 1))
    : p \in {position(0..255 \ {CR, LF}, i)}})

is_digit == 48..57
is_alpha == (65..90) \cup (97..122)
is_alphanumeric == is_alpha \cup is_digit
is_VCHAR == 33..126

\* abnf_core::streaming::SP
SP(i) ==
    IF i = <<>> THEN Incomplete
    ELSE IF i[1] = 32 THEN Ok(Drop(i, 1), 32)
    ELSE Error

\* nom::character::streaming::digit1
digit1(i) == take_while1(is_digit, i)

-----------------------------------------------------------------------------
(* u32: a 32-bit unsigned number is <<hi, lo>>, its two 16-bit halves, so   *)
(* that the arithmetic stays inside the model checker's integers.           *)

U32(hi, lo) == <<hi, lo>>
U32Zero == <<0, 0>>
U32Max == <<65535, 65535>>

\* acc.checked_mul(10)?.checked_add(d): <<overflowed, acc * 10 + d>>
MulAdd10(acc, d) ==
    LET lo10 == acc[2] * 10 + d
        hi10 == acc[1] * 10 + (lo10 \div 65536)
    IN  IF hi10 > 65535 THEN <<TRUE, U32Zero>>
        ELSE <<FALSE, <<hi10, lo10 % 65536>>>>

RECURSIVE parse_u32_from(_, _)
parse_u32_from(acc, ds) ==
    IF ds = <<>> THEN Some(acc)
    ELSE The({IF r[1] THEN None ELSE parse_u32_from(r[2], Tail(ds))
         : r \in {MulAdd10(acc, ds[1] - 48)}})

\* str::parse::<u32> on a non-empty string of ASCII digits; None is
\* Err(PosOverflow).
parse_u32(ds) == parse_u32_from(U32Zero, ds)

\* <<v / 10, v % 10>>
DivMod10(v) ==
    LET t == (v[1] % 10) * 65536 + v[2]
    IN  <<<<v[1] \div 10, t \div 10>>, t % 10>>

RECURSIVE u32_digits(_)
u32_digits(v) ==
    IF v = U32Zero THEN <<>>
    ELSE The({Append(u32_digits(qr[1]), 48 + qr[2])
         : qr \in {DivMod10(v)}})

\* <u32 as Display>::fmt: the decimal numeral, no leading zeros.
u32_to_string(v) == IF v = U32Zero THEN <<48>> ELSE u32_digits(v)

\* parse::number
number(i) ==
    The({IF ~IsOk(r) THEN r
    ELSE The({IF n.some THEN Ok(r.rem, n.v) ELSE Error
         : n \in {parse_u32(r.val)}})
    : r \in {from_utf8(digit1(i))}})

\* nom::branch::alt over the results of its alternatives, in order: the first
\* result that is not nom::Err::Error, else Error.
alt(rs) ==
    The({IF ks = {} THEN Error ELSE rs[MinOf(ks)]
    : ks \in {{k \in 1..Len(rs) : rs[k].kind # "Error"}}})

-----------------------------------------------------------------------------
(* types/command.rs: Command and Language *)

User(name) == [cmd |-> "User", f0 |-> name]
Pass(pass) == [cmd |-> "Pass", f0 |-> pass]
Stat == [cmd |-> "Stat"]
ListAll == [cmd |-> "ListAll"]
List(msg) == [cmd |-> "List", msg |-> msg]
Retr(msg) == [cmd |-> "Retr", msg |-> msg]
Dele(msg) == [cmd |-> "Dele", msg |-> msg]
Noop == [cmd |-> "Noop"]
Rset == [cmd |-> "Rset"]
Quit == [cmd |-> "Quit"]
Apop(name, digest) == [cmd |-> "Apop", name |-> name, digest |-> digest]
Top(msg, n) == [cmd |-> "Top", msg |-> msg, n |-> n]
UidlAll == [cmd |-> "UidlAll"]
Uidl(msg) == [cmd |-> "Uidl", msg |-> msg]
Capa == [cmd |-> "Capa"]
Stls == [cmd |-> "Stls"]
AuthAll == [cmd |-> "AuthAll"]
Auth(mechanism, initial_response) ==
    [cmd |-> "Auth", mechanism |-> mechanism,
     initial_response |-> initial_response]
Utf8 == [cmd |-> "Utf8"]
LangAll == [cmd |-> "LangAll"]
Lang(lang_or_wild) == [cmd |-> "Lang", lang_or_wild |-> lang_or_wild]

LanguageLang(lang) == [language |-> "Lang", f0 |-> lang]
LanguageWild == [language |-> "Wild"]

\* language_to_string that writes the wildcard for every language
language_to_string_wild(l) == B("*")

\* impl ToString for Language
language_to_string(l) ==
    IF l.language = "Wild" THEN B("*") ELSE l.f0

\* serialize that writes Command::name() as the keyword
serialize_by_name(c) ==
    CASE c.cmd = "User" -> B("USER ") \o c.f0 \o CRLF
      [] c.cmd = "Pass" -> B("PASS ") \o c.f0 \o CRLF
      [] c.cmd = "Stat" -> B("STAT") \o CRLF
      [] c.cmd = "ListAll" -> B("LISTALL") \o CRLF
      [] c.cmd = "List" -> B("LIST ") \o u32_to_string(c.msg) \o CRLF
      [] c.cmd = "Retr" -> B("RETR ") \o u32_to_string(c.msg) \o CRLF
      [] c.cmd = "Dele" -> B("DELE ") \o u32_to_string(c.msg) \o CRLF
      [] c.cmd = "Noop" -> B("NOOP") \o CRLF
      [] c.cmd = "Rset" -> B("RSET") \o CRLF
      [] c.cmd = "Quit" -> B("QUIT") \o CRLF
      [] c.cmd = "Apop" ->
            B("APOP ") \o c.name \o B(" ") \o c.digest \o CRLF
      [] c.cmd = "Top" ->
            B("TOP ") \o u32_to_string(c.msg) \o B(" ")
                \o u32_to_string(c.n) \o CRLF
      [] c.cmd = "UidlAll" -> B("UIDLALL") \o CRLF
      [] c.cmd = "Uidl" -> B("UIDL ") \o u32_to_string(c.msg) \o CRLF
      [] c.cmd = "Capa" -> B("CAPA") \o CRLF
      [] c.cmd = "Stls" -> B("STLS") \o CRLF
      [] c.cmd = "AuthAll" -> B("AUTHALL") \o CRLF
      [] c.cmd = "Auth" ->
            IF c.initial_response.some
            THEN B("AUTH ") \o c.mechanism \o B(" ")
                    \o c.initial_response.v \o CRLF
            ELSE B("AUTH ") \o c.mechanism \o CRLF
      [] c.cmd = "Utf8" -> B("UTF8") \o CRLF
      [] c.cmd = "LangAll" -> B("LANGALL") \o CRLF
      [] c.cmd = "Lang" ->
            B("LANG ") \o language_to_string(c.lang_or_wild) \o CRLF

\* Command::serialize
serialize(c) ==
    CASE c.cmd = "User" -> B("USER ") \o c.f0 \o CRLF
      [] c.cmd = "Pass" -> B("PASS ") \o c.f0 \o CRLF
      [] c.cmd = "Stat" -> B("STAT") \o CRLF
      [] c.cmd = "ListAll" -> B("LIST") \o CRLF
      [] c.cmd = "List" -> B("LIST ") \o u32_to_string(c.msg) \o CRLF
      [] c.cmd = "Retr" -> B("RETR ") \o u32_to_string(c.msg) \o CRLF
      [] c.cmd = "Dele" -> B("DELE ") \o u32_to_string(c.msg) \o CRLF
      [] c.cmd = "Noop" -> B("NOOP") \o CRLF
      [] c.cmd = "Rset" -> B("RSET") \o CRLF
      [] c.cmd = "Quit" -> B("QUIT") \o CRLF
      [] c.cmd = "Apop" ->
            B("APOP ") \o c.name \o B(" ") \o c.digest \o CRLF
      [] c.cmd = "Top" ->
            B("TOP ") \o u32_to_string(c.msg) \o B(" ")
                \o u32_to_string(c.n) \o CRLF
      [] c.cmd = "UidlAll" -> B("UIDL") \o CRLF
      [] c.cmd = "Uidl" -> B("UIDL ") \o u32_to_string(c.msg) \o CRLF
      [] c.cmd = "Capa" -> B("CAPA") \o CRLF
      [] c.cmd = "Stls" -> B("STLS") \o CRLF
      [] c.cmd = "AuthAll" -> B("AUTH") \o CRLF
      [] c.cmd = "Auth" ->
            IF c.initial_response.some
            THEN B("AUTH ") \o c.mechanism \o B(" ")
                    \o c.initial_response.v \o CRLF
            ELSE B("AUTH ") \o c.mechanism \o CRLF
      [] c.cmd = "Utf8" -> B("UTF8") \o CRLF
      [] c.cmd = "LangAll" -> B("LANG") \o CRLF
      [] c.cmd = "Lang" ->
            B("LANG ") \o language_to_string(c.lang_or_wild) \o CRLF

-----------------------------------------------------------------------------
(* parse/command.rs *)


\* tuple((tag_no_case(kw), tag(" "), map_res(not_line_ending, from_utf8)))
kw_sp_rest(kw, i) ==
    The({IF ~IsOk(r1) THEN r1 ELSE
    The({IF ~IsOk(r2) THEN r2 ELSE
    from_utf8(not_line_ending(r2.rem))
    : r2 \in {tag(B(" "), r1.rem)}})
    : r1 \in {tag_no_case(kw, i)}})

user(i) ==
    The({IF IsOk(r) THEN Ok(r.rem, User(r.val)) ELSE r
    : r \in {kw_sp_rest(B("USER"), i)}})

pass(i) ==
    The({IF IsOk(r) THEN Ok(r.rem, Pass(r.val)) ELSE r
    : r \in {kw_sp_rest(B("PASS"), i)}})

stat(i) == map_to(tag_no_case(B("STAT"), i), Stat)

\* tuple((tag(" "), number)), keeping the number
sp_number(i) ==
    The({IF ~IsOk(r) THEN r ELSE number(r.rem)
    : r \in {tag(B(" "), i)}})

\* tuple((tag_no_case(kw), opt(preceded(tag(" "), number))))
kw_opt_number(kw, i) ==
    The({IF ~IsOk(r1) THEN r1 ELSE opt(sp_number(r1.rem), r1.rem)
    : r1 \in {tag_no_case(kw, i)}})

\* tuple((tag_no_case(kw), tag(" "), number))
kw_number(kw, i) ==
    The({IF ~IsOk(r1) THEN r1 ELSE sp_number(r1.rem)
    : r1 \in {tag_no_case(kw, i)}})

\* list that drops the message number
list_all_always(i) ==
    The({IF ~IsOk(r) THEN r ELSE Ok(r.rem, ListAll)
    : r \in {kw_opt_number(B("LIST"), i)}})

list(i) ==
    The({IF ~IsOk(r) THEN r
    ELSE Ok(r.rem, IF r.val.some THEN List(r.val.v) ELSE ListAll)
    : r \in {kw_opt_number(B("LIST"), i)}})

retr(i) ==
    The({IF IsOk(r) THEN Ok(r.rem, Retr(r.val)) ELSE r
    : r \in {kw_number(B("RETR"), i)}})

dele(i) ==
    The({IF IsOk(r) THEN Ok(r.rem, Dele(r.val)) ELSE r
    : r \in {kw_number(B("DELE"), i)}})

noop(i) == map_to(tag_no_case(B("NOOP"), i), Noop)

rset(i) == map_to(tag_no_case(B("RSET"), i), Rset)

quit(i) == map_to(tag_no_case(B("QUIT"), i), Quit)

apop(i) ==
    The({IF ~IsOk(r1) THEN r1 ELSE
    The({IF ~IsOk(r2) THEN r2 ELSE
    The({IF ~IsOk(r3) THEN r3 ELSE
    The({IF ~IsOk(r4) THEN r4 ELSE
    The({IF ~IsOk(r5) THEN r5 ELSE Ok(r5.rem, Apop(r3.val, r5.val))
    : r5 \in {from_utf8(not_line_ending(r4.rem))}})
    : r4 \in {tag(B(" "), r3.rem)}})
    : r3 \in {from_utf8(take_while(0..255 \ {32}, r2.rem))}})
    : r2 \in {tag(B(" "), r1.rem)}})
    : r1 \in {tag_no_case(B("APOP"), i)}})

top(i) ==
    The({IF ~IsOk(r1) THEN r1 ELSE
    The({IF ~IsOk(r2) THEN r2 ELSE Ok(r2.rem, Top(r1.val, r2.val))
    : r2 \in {sp_number(r1.rem)}})
    : r1 \in {kw_number(B("TOP"), i)}})

uidl(i) ==
    The({IF ~IsOk(r) THEN r
    ELSE Ok(r.rem, IF r.val.some THEN Uidl(r.val.v) ELSE UidlAll)
    : r \in {kw_opt_number(B("UIDL"), i)}})

capa(i) == map_to(tag_no_case(B("CAPA"), i), Capa)

stls(i) == map_to(tag_no_case(B("STLS"), i), Stls)

is_auth_char == is_alpha \cup is_digit \cup {45, 95}

auth_type(i) == from_utf8(take_while1(is_auth_char, i))

is_base64_char == is_alpha \cup is_digit \cup {43, 47}

base64(i) ==
    The({IF ~IsOk(r1) THEN r1 ELSE
    The({IF ~IsOk(r2) THEN r2
    ELSE from_utf8(Ok(r2.rem, Take(i, Len(i) - Len(r2.rem))))
    : r2 \in {opt(alt(<<tag(B("=="), r1.rem), tag(B("="), r1.rem)>>),
                  r1.rem)}})
    : r1 \in {take_while(is_base64_char, i)}})

\* tuple((tag(" "), alt((base64, map_res(tag("="), from_utf8))))), keeping
\* the initial response
sp_initial_response(i) ==
    The({IF ~IsOk(r) THEN r
    ELSE alt(<<base64(r.rem), from_utf8(tag(B("="), r.rem))>>)
    : r \in {tag(B(" "), i)}})

\* the first alternative of auth: AUTH SP auth_type [SP initial-response]
auth_mechanism(i) ==
    The({IF ~IsOk(r1) THEN r1 ELSE
    The({IF ~IsOk(r2) THEN r2 ELSE
    The({IF ~IsOk(r3) THEN r3 ELSE
    The({IF ~IsOk(r4) THEN r4 ELSE Ok(r4.rem, Auth(r3.val, r4.val))
    : r4 \in {opt(sp_initial_response(r3.rem), r3.rem)}})
    : r3 \in {auth_type(r2.rem)}})
    : r2 \in {tag(B(" "), r1.rem)}})
    : r1 \in {tag_no_case(B("AUTH"), i)}})

\* auth that tries the bare keyword before the form with a mechanism
auth_all_first(i) ==
    alt(<<map_to(tag_no_case(B("AUTH"), i), AuthAll), auth_mechanism(i)>>)

auth(i) ==
    alt(<<auth_mechanism(i), map_to(tag_no_case(B("AUTH"), i), AuthAll)>>)

utf8(i) == map_to(tag_no_case(B("UTF8"), i), Utf8)

RECURSIVE language_subtags(_)
\* many0(tuple((tag(b"-"), take_while_m_n(1, 8, is_alphanumeric)))): the
\* result holds the remainder only, recognize() discards the values.
language_subtags(i) ==
    The({
    The({IF r2.kind = "Error" THEN Ok(i, <<>>)
    ELSE IF r2.kind = "Incomplete" THEN r2
    ELSE IF Len(r2.rem) = Len(i) THEN Error
    ELSE language_subtags(r2.rem)
    : r2 \in {IF IsOk(r1) THEN take_while_m_n(1, 8, is_alphanumeric, r1.rem)
              ELSE r1}})
    : r1 \in {tag(B("-"), i)}})

\* parse::language
language(i) ==
    The({IF ~IsOk(r1) THEN r1 ELSE
    The({IF ~IsOk(r2) THEN r2
    ELSE from_utf8(Ok(r2.rem, Take(i, Len(i) - Len(r2.rem))))
    : r2 \in {language_subtags(r1.rem)}})
    : r1 \in {take_while_m_n(1, 8, is_alpha, i)}})

lang_or_wild(i) ==
    The({alt(<<map_to(tag(B("*"), i), LanguageWild),
               IF IsOk(r) THEN Ok(r.rem, LanguageLang(r.val)) ELSE r>>)
    : r \in {language(i)}})

\* preceded(tag(" "), lang_or_wild)
sp_lang_or_wild(i) ==
    The({IF ~IsOk(r) THEN r ELSE lang_or_wild(r.rem)
    : r \in {tag(B(" "), i)}})

lang(i) ==
    The({IF ~IsOk(r1) THEN r1 ELSE
    The({IF ~IsOk(r2) THEN r2
    ELSE Ok(r2.rem, IF r2.val.some THEN Lang(r2.val.v) ELSE LangAll)
    : r2 \in {opt(sp_lang_or_wild(r1.rem), r1.rem)}})
    : r1 \in {tag_no_case(B("LANG"), i)}})

\* command that leaves the terminator of the line unread
command_unterminated(i) ==
    alt(<<user(i), pass(i), apop(i), stls(i), capa(i), quit(i),
          stat(i), list(i), retr(i), dele(i), noop(i), rset(i),
          top(i), uidl(i), auth(i), utf8(i), lang(i)>>)

\* parse::command
command(i) ==
    The({IF ~IsOk(r) THEN r ELSE
    The({IF ~IsOk(e) THEN e ELSE Ok(e.rem, r.val)
    : e \in {line_ending(r.rem)}})
    : r \in {alt(<<user(i), pass(i), apop(i), stls(i),
                   capa(i), quit(i),
                   stat(i), list(i), retr(i), dele(i), noop(i), rset(i),
                   top(i), uidl(i),
                   auth(i), utf8(i), lang(i)>>)}})

-----------------------------------------------------------------------------
(* types/response.rs *)

Greeting(code, comment, timestamp) ==
    [code |-> code, comment |-> comment, timestamp |-> timestamp]
SingleLine(code, comment) == [code |-> code, comment |-> comment]
MultiLine(head_, body) == [head |-> head_, body |-> body]
ResponseOk(o) == [resp |-> "Ok", ok |-> o]
ResponseErr(e) == [resp |-> "Err", err |-> e]
DropListing(message_count, maildrop_size) ==
    [message_count |-> message_count, maildrop_size |-> maildrop_size]
ScanListing(message_id, message_size) ==
    [message_id |-> message_id, message_size |-> message_size]
UniqueIdListing(message_id, message_uid) ==
    [message_id |-> message_id, message_uid |-> message_uid]
LanguageListing(tag_, description) ==
    [tag |-> tag_, description |-> description]

CapabilityTop == [capability |-> "Top"]
CapabilityUser == [capability |-> "User"]
CapabilitySasl(mechanisms) ==
    [capability |-> "Sasl", mechanisms |-> mechanisms]
CapabilityRespCodes == [capability |-> "RespCodes"]
CapabilityLoginDelay(minimum_seconds, per_user) ==
    [capability |-> "LoginDelay", minimum_seconds |-> minimum_seconds,
     per_user |-> per_user]
CapabilityPipelining == [capability |-> "Pipelining"]
CapabilityExpire(policy, per_user) ==
    [capability |-> "Expire", policy |-> policy, per_user |-> per_user]
CapabilityUidl == [capability |-> "Uidl"]
CapabilityImplementation(text_) ==
    [capability |-> "Implementation", text |-> text_]
CapabilityStls == [capability |-> "Stls"]
CapabilityAuthRespCode == [capability |-> "AuthRespCode"]
CapabilityUtf8(in_credentials) ==
    [capability |-> "Utf8", in_credentials |-> in_credentials]
CapabilityLang == [capability |-> "Lang"]
CapabilityOther(tag_, parameters) ==
    [capability |-> "Other", tag |-> tag_, parameters |-> parameters]

ExpirePolicyNever == [policy |-> "Never"]
ExpirePolicyMinimumDays(days) == [policy |-> "MinimumDays", f0 |-> days]

\* impl ToString for ExpirePolicy
expire_policy_to_string(p) ==
    IF p.policy = "Never" THEN B("NEVER") ELSE u32_to_string(p.f0)

\* impl ToString for Capability
capability_to_string(k) ==
    CASE k.capability = "Top" -> B("TOP")
      [] k.capability = "User" -> B("USER")
      [] k.capability = "Sasl" -> B("SASL ") \o Join(k.mechanisms, B(" "))
      [] k.capability = "RespCodes" -> B("RESP-CODES")
      [] k.capability = "LoginDelay" ->
            B("LOGIN-DELAY ") \o u32_to_string(k.minimum_seconds)
                \o (IF k.per_user THEN B(" USER") ELSE <<>>)
      [] k.capability = "Pipelining" -> B("PIPELINING")
      [] k.capability = "Expire" ->
            B("EXPIRE ") \o expire_policy_to_string(k.policy)
                \o (IF k.per_user THEN B(" USER") ELSE <<>>)
      [] k.capability = "Uidl" -> B("UIDL")
      [] k.capability = "Implementation" -> B("IMPLEMENTATION ") \o k.text
      [] k.capability = "Stls" -> B("STLS")
      [] k.capability = "AuthRespCode" -> B("AUTH-RESP-CODE")
      [] k.capability = "Utf8" ->
            IF k.in_credentials THEN B("UTF8 USER") ELSE B("UTF8")
      [] k.capability = "Lang" -> B("LANG")
      [] k.capability = "Other" ->
            k.tag \o B(" ") \o Join(k.parameters, B(" "))

-----------------------------------------------------------------------------
(* parse/response.rs and parse/mod.rs: greeting, single line, listings *)

\* schar as RFC 2449 writes it, without the space
is_schar_rfc == (33..90) \cup (92..127)

\* gchar with every printable byte, "<" included
is_gchar_printable == 32..127

is_rchar == (33..46) \cup (48..92) \cup (94..127)
is_gchar == (32..59) \cup (61..127)
is_schar == (32..90) \cup (92..127)
is_cchar == (33..45) \cup (47..127)
is_uid_char == 33..126

resp_level(i) == from_utf8(take_while1(is_rchar, i))

RECURSIVE resp_levels_more(_, _)
\* the loop of separated_list1(tag("/"), resp_level) after its first element
resp_levels_more(i, res) ==
    The({IF s.kind = "Error" THEN Ok(i, res)
    ELSE IF ~IsOk(s) THEN s
    ELSE IF Len(s.rem) = Len(i) THEN Error
    ELSE The({IF f.kind = "Error" THEN Ok(i, res)
         ELSE IF ~IsOk(f) THEN f
         ELSE resp_levels_more(f.rem, Append(res, f.val))
         : f \in {resp_level(s.rem)}})
    : s \in {tag(B("/"), i)}})

resp_code(i) ==
    The({IF ~IsOk(r1) THEN r1 ELSE
    The({IF ~IsOk(f) THEN f ELSE
    The({IF ~IsOk(r2) THEN r2 ELSE
    The({IF ~IsOk(r3) THEN r3 ELSE Ok(r3.rem, r2.val)
    : r3 \in {tag(B("]"), r2.rem)}})
    : r2 \in {resp_levels_more(f.rem, <<f.val>>)}})
    : f \in {resp_level(r1.rem)}})
    : r1 \in {tag(B("["), i)}})

timestamp(i) ==
    The({IF ~IsOk(r1) THEN r1 ELSE
    The({IF ~IsOk(r2) THEN r2 ELSE
    The({IF ~IsOk(r3) THEN r3 ELSE Ok(r3.rem, r2.val)
    : r3 \in {tag(B(">"), r2.rem)}})
    : r2 \in {from_utf8(take_till({62}, r1.rem))}})
    : r1 \in {tag(B("<"), i)}})

\* preceded(SP, resp_code)
sp_resp_code(i) ==
    The({IF ~IsOk(r) THEN r ELSE resp_code(r.rem)
    : r \in {SP(i)}})

\* preceded(SP, tuple((gchars, opt(timestamp), gchars))) of greeting
sp_greeting_body(i) ==
    The({IF ~IsOk(r0) THEN r0 ELSE
    The({IF ~IsOk(r1) THEN r1 ELSE
    The({IF ~IsOk(r2) THEN r2 ELSE
    The({IF ~IsOk(r3) THEN r3 ELSE Ok(r3.rem, <<r1.val, r2.val, r3.val>>)
    : r3 \in {from_utf8(take_while(is_gchar, r2.rem))}})
    : r2 \in {opt(timestamp(r1.rem), r1.rem)}})
    : r1 \in {from_utf8(take_while(is_gchar, r0.rem))}})
    : r0 \in {SP(i)}})

\* parse::greeting
greeting(i) ==
    The({IF ~IsOk(r1) THEN r1 ELSE
    The({IF ~IsOk(r2) THEN r2 ELSE
    The({IF ~IsOk(r3) THEN r3 ELSE
    The({IF ~IsOk(r4) THEN r4 ELSE
    LET code == IF r2.val.some THEN r2.val.v ELSE <<>> IN
    IF r3.val.some
    THEN LET comment1 == r3.val.v[1]
             maybe_timestamp == r3.val.v[2]
             comment2 == r3.val.v[3]
         IN  Ok(r4.rem,
                Greeting(code,
                         IF maybe_timestamp.some
                         THEN comment1 \o B("<>") \o comment2
                         ELSE comment1 \o comment2,
                         maybe_timestamp))
    ELSE Ok(r4.rem, Greeting(code, <<>>, None))
    : r4 \in {line_ending(r3.rem)}})
    : r3 \in {opt(sp_greeting_body(r2.rem), r2.rem)}})
    : r2 \in {opt(sp_resp_code(r1.rem), r1.rem)}})
    : r1 \in {tag_no_case(B("+OK"), i)}})

\* response::status: "Ok" is Status::Ok, "Err" is Status::Err
status(i) ==
    alt(<<map_to(tag_no_case(B("+OK"), i), "Ok"),
          map_to(tag_no_case(B("-ERR"), i), "Err")>>)

\* the first alternative of text: terminated(resp_code, SP), rest of line
text_coded(i) ==
    The({IF ~IsOk(r1) THEN r1 ELSE
    The({IF ~IsOk(r2) THEN r2 ELSE
    The({IF ~IsOk(r3) THEN r3 ELSE Ok(r3.rem, <<r1.val, r3.val>>)
    : r3 \in {from_utf8(not_line_ending(r2.rem))}})
    : r2 \in {SP(r1.rem)}})
    : r1 \in {resp_code(i)}})

\* the second alternative of text: *schar, no code
text_plain(i) ==
    The({IF ~IsOk(r) THEN r ELSE Ok(r.rem, <<<<>>, r.val>>)
    : r \in {from_utf8(take_while(is_schar, i))}})

\* text that tries the comment without code first
text_plain_first(i) == alt(<<text_plain(i), text_coded(i)>>)

text(i) == alt(<<text_coded(i), text_plain(i)>>)

\* preceded(SP, text)
sp_text(i) ==
    The({IF ~IsOk(r) THEN r ELSE text(r.rem)
    : r \in {SP(i)}})

head(i) ==
    The({IF ~IsOk(r) THEN r
    ELSE IF r.val.some
         THEN Ok(r.rem, SingleLine(r.val.v[1], r.val.v[2]))
         ELSE Ok(r.rem, SingleLine(<<>>, <<>>))
    : r \in {opt(sp_text(i), i)}})

\* separated_pair(number, SP, number)
number_sp_number(i) ==
    The({IF ~IsOk(r1) THEN r1 ELSE
    The({IF ~IsOk(r2) THEN r2 ELSE
    The({IF ~IsOk(r3) THEN r3 ELSE Ok(r3.rem, <<r1.val, r3.val>>)
    : r3 \in {number(r2.rem)}})
    : r2 \in {SP(r1.rem)}})
    : r1 \in {number(i)}})

drop_listing(i) ==
    The({IF ~IsOk(r) THEN r ELSE Ok(r.rem, DropListing(r.val[1], r.val[2]))
    : r \in {number_sp_number(i)}})

scan_listing(i) ==
    The({IF ~IsOk(r) THEN r ELSE Ok(r.rem, ScanListing(r.val[1], r.val[2]))
    : r \in {number_sp_number(i)}})

UidMin == 1
UidMax == 70

\* unique_id without the upper bound on the length
unique_id_unbounded(i) == take_while1(is_uid_char, i)

unique_id(i) == take_while_m_n(UidMin, UidMax, is_uid_char, i)

unique_id_listing(i) ==
    The({IF ~IsOk(r1) THEN r1 ELSE
    The({IF ~IsOk(r2) THEN r2 ELSE
    The({IF ~IsOk(r3) THEN r3 ELSE Ok(r3.rem, UniqueIdListing(r1.val, r3.val))
    : r3 \in {unique_id(r2.rem)}})
    : r2 \in {SP(r1.rem)}})
    : r1 \in {number(i)}})

language_listing(i) ==
    The({IF ~IsOk(r1) THEN r1 ELSE
    The({IF ~IsOk(r2) THEN r2 ELSE
    The({IF ~IsOk(r3) THEN r3 ELSE Ok(r3.rem, LanguageListing(r1.val, r3.val))
    : r3 \in {from_utf8(not_line_ending(r2.rem))}})
    : r2 \in {SP(r1.rem)}})
    : r1 \in {language(i)}})

\* dot_stuffed that strips the leading dot of a line with further text
dot_unstuffed(i) ==
    The({IF ~IsOk(r) THEN r
    ELSE IF r.val = B(".") THEN Error
    ELSE IF r.val # <<>> /\ r.val[1] = 46 THEN Ok(r.rem, Drop(r.val, 1))
    ELSE r
    : r \in {from_utf8(not_line_ending(i))}})

dot_stuffed(i) ==
    The({IF ~IsOk(r) THEN r
    ELSE IF r.val = B(".") THEN Error
    ELSE r
    : r \in {from_utf8(not_line_ending(i))}})

-----------------------------------------------------------------------------
(* parse/response.rs: capability *)

\* parse::param
param(i) == from_utf8(take_while1(is_VCHAR, i))

capa_tag(i) == from_utf8(take_while1(is_cchar, i))

\* tuple((tag_no_case(kw), line_ending)) with value(k, ..)
bare_capability(kw, k, i) ==
    The({IF ~IsOk(r1) THEN r1 ELSE map_to(line_ending(r1.rem), k)
    : r1 \in {tag_no_case(kw, i)}})

RECURSIVE params(_)
\* many0(preceded(SP, param))
params(i) ==
    The({
    The({IF r2.kind = "Error" THEN Ok(i, <<>>)
    ELSE IF ~IsOk(r2) THEN r2
    ELSE IF Len(r2.rem) = Len(i) THEN Error
    ELSE The({IF ~IsOk(more) THEN more
         ELSE Ok(more.rem, <<r2.val>> \o more.val)
         : more \in {params(r2.rem)}})
    : r2 \in {IF IsOk(r1) THEN param(r1.rem) ELSE r1}})
    : r1 \in {SP(i)}})

\* opt(tag_no_case(" USER")) then line_ending; the value is is_some()
opt_user_line_ending(i) ==
    The({IF ~IsOk(r1) THEN r1 ELSE map_to(line_ending(r1.rem), r1.val.some)
    : r1 \in {opt(tag_no_case(B(" USER"), i), i)}})

capability_sasl(i) ==
    The({IF ~IsOk(r1) THEN r1 ELSE
    The({IF ~IsOk(r2) THEN r2 ELSE
    map_to(line_ending(r2.rem), CapabilitySasl(r2.val))
    : r2 \in {params(r1.rem)}})
    : r1 \in {tag_no_case(B("SASL"), i)}})

capability_login_delay(i) ==
    The({IF ~IsOk(r1) THEN r1 ELSE
    The({IF ~IsOk(r2) THEN r2 ELSE
    The({IF ~IsOk(r3) THEN r3 ELSE
    The({IF ~IsOk(r4) THEN r4
    ELSE Ok(r4.rem, CapabilityLoginDelay(r3.val, r4.val))
    : r4 \in {opt_user_line_ending(r3.rem)}})
    : r3 \in {number(r2.rem)}})
    : r2 \in {SP(r1.rem)}})
    : r1 \in {tag_no_case(B("LOGIN-DELAY"), i)}})

\* alt((map(number, MinimumDays), value(Never, tag_no_case("NEVER"))))
expire_policy(i) ==
    The({alt(<<IF IsOk(n) THEN Ok(n.rem, ExpirePolicyMinimumDays(n.val))
               ELSE n,
               map_to(tag_no_case(B("NEVER"), i), ExpirePolicyNever)>>)
    : n \in {number(i)}})

capability_expire(i) ==
    The({IF ~IsOk(r1) THEN r1 ELSE
    The({IF ~IsOk(r2) THEN r2 ELSE
    The({IF ~IsOk(r3) THEN r3 ELSE
    The({IF ~IsOk(r4) THEN r4
    ELSE Ok(r4.rem, CapabilityExpire(r3.val, r4.val))
    : r4 \in {opt_user_line_ending(r3.rem)}})
    : r3 \in {expire_policy(r2.rem)}})
    : r2 \in {SP(r1.rem)}})
    : r1 \in {tag_no_case(B("EXPIRE"), i)}})

capability_implementation(i) ==
    The({IF ~IsOk(r1) THEN r1 ELSE
    The({IF ~IsOk(r2) THEN r2 ELSE
    The({IF ~IsOk(r3) THEN r3 ELSE
    map_to(line_ending(r3.rem), CapabilityImplementation(r3.val))
    : r3 \in {from_utf8(not_line_ending(r2.rem))}})
    : r2 \in {SP(r1.rem)}})
    : r1 \in {tag_no_case(B("IMPLEMENTATION"), i)}})

capability_utf8(i) ==
    The({IF ~IsOk(r1) THEN r1 ELSE
    The({IF ~IsOk(r2) THEN r2 ELSE Ok(r2.rem, CapabilityUtf8(r2.val))
    : r2 \in {opt_user_line_ending(r1.rem)}})
    : r1 \in {tag_no_case(B("UTF8"), i)}})

capability_other(i) ==
    The({IF ~IsOk(r1) THEN r1 ELSE
    The({IF ~IsOk(r2) THEN r2 ELSE
    map_to(line_ending(r2.rem), CapabilityOther(r1.val, r2.val))
    : r2 \in {params(r1.rem)}})
    : r1 \in {capa_tag(i)}})

capability(i) ==
    alt(<<bare_capability(B("TOP"), CapabilityTop, i),
          bare_capability(B("USER"), CapabilityUser, i),
          capability_sasl(i),
          bare_capability(B("RESP-CODES"), CapabilityRespCodes, i),
          capability_login_delay(i),
          bare_capability(B("PIPELINING"), CapabilityPipelining, i),
          capability_expire(i),
          bare_capability(B("UIDL"), CapabilityUidl, i),
          capability_implementation(i),
          bare_capability(B("STLS"), CapabilityStls, i),
          bare_capability(B("AUTH-RESP-CODE"), CapabilityAuthRespCode, i),
          bare_capability(B("LANG"), CapabilityLang, i),
          capability_utf8(i),
          capability_other(i)>>)

-----------------------------------------------------------------------------
(* parse/response.rs: single_line and multi_line.  The parser argument P   *)
(* of the generic functions is the name of the function passed.            *)

BodyParsers ==
    {"head", "drop_listing", "scan_listing", "unique_id_listing"}
LineParsers ==
    {"dot_stuffed", "scan_listing", "unique_id_listing", "language_listing",
     "capability"}

\* the call parser(rem) of single_line and multi_line
apply_parser(P, i) ==
    CASE P = "head" -> head(i)
      [] P = "drop_listing" -> drop_listing(i)
      [] P = "scan_listing" -> scan_listing(i)
      [] P = "unique_id_listing" -> unique_id_listing(i)
      [] P = "language_listing" -> language_listing(i)
      [] P = "dot_stuffed" -> dot_stuffed(i)
      [] P = "capability" -> capability(i)

\* tuple((p, line_ending)) applied to the result r of p, keeping p's value
then_line_ending(r) ==
    IF ~IsOk(r) THEN r ELSE map_to(line_ending(r.rem), r.val)

\* single_line_ok that never reads the space before the payload
single_line_ok_no_space(rem, P, payload_required) ==
    The({IF ~IsOk(r) THEN r ELSE Ok(r.rem, ResponseOk(r.val))
    : r \in {then_line_ending(apply_parser(P, rem))}})

\* the Status::Ok arm of single_line
single_line_ok(rem, P, payload_required) ==
    The({IF ~IsOk(sp) THEN sp ELSE
    The({IF ~IsOk(r) THEN r ELSE Ok(r.rem, ResponseOk(r.val))
    : r \in {then_line_ending(apply_parser(P, sp.rem))}})
    : sp \in {IF payload_required THEN SP(rem) ELSE Ok(rem, 32)}})

\* single_line_err that asks for the space of a mandatory payload
single_line_err_payload(rem, P, payload_required) ==
    The({IF ~IsOk(sp) THEN sp ELSE
    The({IF ~IsOk(r) THEN r ELSE Ok(r.rem, ResponseErr(r.val))
    : r \in {then_line_ending(head(sp.rem))}})
    : sp \in {IF payload_required THEN SP(rem) ELSE Ok(rem, 32)}})

\* the Status::Err arm of single_line
single_line_err(rem, P, payload_required) ==
    The({IF ~IsOk(r) THEN r ELSE Ok(r.rem, ResponseErr(r.val))
    : r \in {then_line_ending(head(rem))}})

\* single_line that hands back its whole input as the remainder
single_line_peek(i, P, payload_required) ==
    The({IF ~IsOk(s) THEN s
    ELSE The({IF ~IsOk(r) THEN r ELSE Ok(i, r.val)
         : r \in {IF s.val = "Ok"
                  THEN single_line_ok(s.rem, P, payload_required)
                  ELSE single_line_err(s.rem, P, payload_required)}})
    : s \in {status(i)}})

single_line(i, P, payload_required) ==
    The({IF ~IsOk(s) THEN s
    ELSE IF s.val = "Ok" THEN single_line_ok(s.rem, P, payload_required)
    ELSE single_line_err(s.rem, P, payload_required)
    : s \in {status(i)}})

RECURSIVE many0_lines(_, _)
\* many0(terminated(parser, line_ending))
many0_lines(P, i) ==
    The({IF r.kind = "Error" THEN Ok(i, <<>>)
    ELSE IF ~IsOk(r) THEN r
    ELSE IF Len(r.rem) = Len(i) THEN Error
    ELSE The({IF ~IsOk(more) THEN more
         ELSE Ok(more.rem, <<r.val>> \o more.val)
         : more \in {many0_lines(P, r.rem)}})
    : r \in {then_line_ending(apply_parser(P, i))}})

\* dot_line that leaves the terminator of the "." line unread
dot_line_unterminated(i) == tag(B("."), i)

\* tuple((tag("."), line_ending))
dot_line(i) ==
    The({IF ~IsOk(r) THEN r ELSE line_ending(r.rem)
    : r \in {tag(B("."), i)}})

\* the Response::Ok arm of multi_line
multi_line_body(rem, head_, P) ==
    The({IF ~IsOk(r1) THEN r1 ELSE
    The({IF ~IsOk(r2) THEN r2
    ELSE Ok(r2.rem, ResponseOk(MultiLine(head_, r1.val)))
    : r2 \in {dot_line(r1.rem)}})
    : r1 \in {many0_lines(P, rem)}})

\* multi_line that reads a body after a "-ERR" status line too
multi_line_err_body(i, P) ==
    The({IF ~IsOk(single) THEN single
    ELSE IF single.val.resp = "Ok"
         THEN multi_line_body(single.rem, single.val.ok, P)
         ELSE The({IF ~IsOk(r) THEN r
              ELSE Ok(r.rem, ResponseErr(single.val.err))
              : r \in {multi_line_body(single.rem, single.val.err, P)}})
    : single \in {single_line(i, "head", FALSE)}})

multi_line(i, P) ==
    The({IF ~IsOk(single) THEN single
    ELSE IF single.val.resp = "Ok"
         THEN multi_line_body(single.rem, single.val.ok, P)
         ELSE Ok(single.rem, ResponseErr(single.val.err))
    : single \in {single_line(i, "head", FALSE)}})

-----------------------------------------------------------------------------
(* parse/mod.rs: the public entry points *)

response_user(i) == single_line(i, "head", FALSE)
response_pass(i) == single_line(i, "head", FALSE)
response_stat(i) == single_line(i, "drop_listing", TRUE)
response_list_all(i) == multi_line(i, "scan_listing")
response_list(i) == single_line(i, "scan_listing", TRUE)
response_retr(i) == multi_line(i, "dot_stuffed")
response_dele(i) == single_line(i, "head", FALSE)
response_noop(i) == single_line(i, "head", FALSE)
response_rset(i) == single_line(i, "head", FALSE)
response_quit(i) == single_line(i, "head", FALSE)
response_apop(i) == single_line(i, "head", FALSE)
response_top(i) == multi_line(i, "dot_stuffed")
response_uidl_all(i) == multi_line(i, "unique_id_listing")
response_uidl(i) == single_line(i, "unique_id_listing", TRUE)
response_capa(i) == multi_line(i, "capability")
response_stls(i) == single_line(i, "head", FALSE)
response_auth_all(i) == multi_line(i, "dot_stuffed")
response_utf8(i) == single_line(i, "head", FALSE)
response_lang_all(i) == multi_line(i, "language_listing")
response_lang(i) == single_line(i, "head", FALSE)

ResponseEntries ==
    {"response_user", "response_pass", "response_stat", "response_list_all",
     "response_list", "response_retr", "response_dele", "response_noop",
     "response_rset", "response_quit", "response_apop", "response_top",
     "response_uidl_all", "response_uidl", "response_capa", "response_stls",
     "response_auth_all", "response_utf8", "response_lang_all",
     "response_lang"}

EntryPoints == {"command", "greeting"} \cup ResponseEntries

\* the call target [fn |-> name] of a function of one argument
Public(f) == [fn |-> f]

\* the call of entry point e on the byte slice i; besides the public entry
\* points e names capability, and single_line with its arguments
call(e, i) ==
    CASE e.fn = "command" -> command(i)
      [] e.fn = "greeting" -> greeting(i)
      [] e.fn = "response_user" -> response_user(i)
      [] e.fn = "response_pass" -> response_pass(i)
      [] e.fn = "response_stat" -> response_stat(i)
      [] e.fn = "response_list_all" -> response_list_all(i)
      [] e.fn = "response_list" -> response_list(i)
      [] e.fn = "response_retr" -> response_retr(i)
      [] e.fn = "response_dele" -> response_dele(i)
      [] e.fn = "response_noop" -> response_noop(i)
      [] e.fn = "response_rset" -> response_rset(i)
      [] e.fn = "response_quit" -> response_quit(i)
      [] e.fn = "response_apop" -> response_apop(i)
      [] e.fn = "response_top" -> response_top(i)
      [] e.fn = "response_uidl_all" -> response_uidl_all(i)
      [] e.fn = "response_uidl" -> response_uidl(i)
      [] e.fn = "response_capa" -> response_capa(i)
      [] e.fn = "response_stls" -> response_stls(i)
      [] e.fn = "response_auth_all" -> response_auth_all(i)
      [] e.fn = "response_utf8" -> response_utf8(i)
      [] e.fn = "response_lang_all" -> response_lang_all(i)
      [] e.fn = "response_lang" -> response_lang(i)
      [] e.fn = "capability" -> capability(i)
      [] e.fn = "single_line" ->
            single_line(i, e.parser, e.payload_required)

-----------------------------------------------------------------------------
(* Values handed to the serializers *)

MaxOperandLen == 3
MaxParams == 1

RECURSIVE StringsOver(_, _)
\* the byte strings over alphabet A of length at most n
StringsOver(A, n) ==
    IF n = 0 THEN {<<>>}
    ELSE The({shorter \cup {Append(s, b) : s \in shorter, b \in A}
         : shorter \in {StringsOver(A, n - 1)}})

RECURSIVE ListsOver(_, _)
\* the sequences of elements of S of length at most n
ListsOver(S, n) ==
    IF n = 0 THEN {<<>>}
    ELSE The({shorter \cup {Append(l, x) : l \in shorter, x \in S}
         : shorter \in {ListsOver(S, n - 1)}})

\* bytes of operand strings: "a", "1", " ", "=", "*", CR, LF
OperandBytes == {97, 49, 32, 61, 42, CR, LF}

\* String operands
Strings == StringsOver(OperandBytes, MaxOperandLen)

\* pairs of String operands of bounded total length
StringPairs ==
    {p \in Strings \X Strings : Len(p[1]) + Len(p[2]) <= MaxOperandLen}

\* u32 operands: 0, 1, 9, 10, 65535, 65536, 4294967295
Numbers ==
    {U32(0, 0), U32(0, 1), U32(0, 9), U32(0, 10), U32(0, 65535), U32(1, 0),
     U32Max}

\* the Command values
Commands ==
    {Stat, ListAll, Noop, Rset, Quit, UidlAll, Capa, Stls, AuthAll, Utf8,
     LangAll, Lang(LanguageWild)}
    \cup {User(s) : s \in Strings}
    \cup {Pass(s) : s \in Strings}
    \cup {List(n) : n \in Numbers}
    \cup {Retr(n) : n \in Numbers}
    \cup {Dele(n) : n \in Numbers}
    \cup {Uidl(n) : n \in Numbers}
    \cup {Top(p[1], p[2]) : p \in Numbers \X Numbers}
    \cup {Apop(p[1], p[2]) : p \in StringPairs}
    \cup {Auth(s, None) : s \in Strings}
    \cup {Auth(p[1], Some(p[2])) : p \in StringPairs}
    \cup {Lang(LanguageLang(s)) : s \in Strings}

\* parameter lists of Sasl and Other
ParamLists == ListsOver({B("a"), B("PLAIN")}, MaxParams)

\* the Capability values
Capabilities ==
    {CapabilityTop, CapabilityUser, CapabilityRespCodes,
     CapabilityPipelining, CapabilityUidl, CapabilityStls,
     CapabilityAuthRespCode, CapabilityLang,
     CapabilityUtf8(TRUE), CapabilityUtf8(FALSE)}
    \cup {CapabilitySasl(l) : l \in ParamLists}
    \cup {CapabilityOther(t, l) : t \in {B("X-A"), B("TOP")}, l \in ParamLists}
    \cup {CapabilityLoginDelay(n, u) : n \in Numbers, u \in BOOLEAN}
    \cup {CapabilityExpire(ExpirePolicyMinimumDays(n), u) :
            n \in Numbers, u \in BOOLEAN}
    \cup {CapabilityExpire(ExpirePolicyNever, u) : u \in BOOLEAN}
    \cup {CapabilityImplementation(s) : s \in {B("fake"), B("a b"), <<>>}}

IsCommand(v) == "cmd" \in DOMAIN v
IsCapability(v) == "capability" \in DOMAIN v

-----------------------------------------------------------------------------
(* SpecValue: a value is serialized and the bytes are parsed back *)

NoResult == [kind |-> "None"]

SessionIdle ==
    /\ client = <<>> /\ server = <<>>
    /\ rem_client = <<>> /\ rem_server = <<>>
    /\ step = 0 /\ last = NoResult

InitValue ==
    /\ pc = "start"
    /\ value \in Commands \cup Capabilities
    /\ entry = IF IsCommand(value) THEN Public("command")
               ELSE Public("capability")
    /\ input = <<>>
    /\ wire = <<>>
    /\ result = NoResult
    /\ cut = 0
    /\ result2 = NoResult
    /\ SessionIdle

\* c.serialize()
SerializeCommand ==
    /\ pc = "start"
    /\ IsCommand(value)
    /\ wire' = serialize(value)
    /\ pc' = "serialized"
    /\ UNCHANGED <<entry, input, value, result, cut, result2,
                   client, server, rem_client, rem_server, step, last>>

\* k.to_string() + "\r\n"
CapabilityToString ==
    /\ pc = "start"
    /\ IsCapability(value)
    /\ wire' = capability_to_string(value) \o CRLF
    /\ pc' = "serialized"
    /\ UNCHANGED <<entry, input, value, result, cut, result2,
                   client, server, rem_client, rem_server, step, last>>

\* command(&wire)
ParseSerializedCommand ==
    /\ pc = "serialized"
    /\ IsCommand(value)
    /\ result' = command(wire)
    /\ pc' = "parsed"
    /\ UNCHANGED <<entry, input, value, wire, cut, result2,
                   client, server, rem_client, rem_server, step, last>>

\* capability(&wire)
ParseSerializedCapability ==
    /\ pc = "serialized"
    /\ IsCapability(value)
    /\ result' = capability(wire)
    /\ pc' = "parsed"
    /\ UNCHANGED <<entry, input, value, wire, cut, result2,
                   client, server, rem_client, rem_server, step, last>>

NextValue ==
    \/ SerializeCommand
    \/ CapabilityToString
    \/ ParseSerializedCommand
    \/ ParseSerializedCapability

SpecValue == InitValue /\ [][NextValue]_vars

-----------------------------------------------------------------------------
(* C1: command round trip.  For every Command value c, with any operand    *)
(* strings and any 32-bit numbers, command(c.serialize()) succeeds, leaves *)
(* an empty remainder and returns a value equal to c.                      *)
CommandRoundTrip ==
    (pc = "parsed" /\ IsCommand(value)) => result = Ok(<<>>, value)

(* C2: capability round trip, value to text to value.  For every           *)
(* Capability value k, Sasl and Other with an empty parameter list         *)
(* included, capability(k.to_string() + CRLF) succeeds, leaves an empty    *)
(* remainder and returns a value equal to k.                               *)
CapabilityRoundTrip ==
    (pc = "parsed" /\ IsCapability(value)) => result = Ok(<<>>, value)

-----------------------------------------------------------------------------
(* SpecWire: an entry point is called on bytes from the wire, then called  *)
(* again on a truncation of what it consumed, and a parsed capability is   *)
(* written back as text                                                    *)

MaxArgs == 2
MaxBodyLines == 3

\* the byte strings start \o a1 \o ... \o ak \o end, k <= n, of pieces of Args
Lines(Starts, Args, n, Ends) ==
    {st \o Concat(l) \o e :
        st \in Starts, l \in ListsOver(Args, n), e \in Ends}

\* both line terminators line_ending takes, one with a byte after it, none
LineEndings == {CRLF, <<LF>>, CRLF \o B("a"), <<>>}

\* the 17 verbs of command
Verbs ==
    {B("USER"), B("PASS"), B("APOP"), B("STLS"), B("CAPA"), B("QUIT"),
     B("STAT"), B("LIST"), B("RETR"), B("DELE"), B("NOOP"), B("RSET"),
     B("TOP"), B("UIDL"), B("AUTH"), B("UTF8"), B("LANG")}

CommandStarts == Verbs \cup {B("user"), B("Top"), B("XYZ"), B("US"), <<>>}
CommandArgs == {B(" "), B(" 1"), B(" a"), B(" *"), B(" ="), CRLF}
CommandInputs == Lines(CommandStarts, CommandArgs, MaxArgs, LineEndings)

\* a command line with the next line of the client buffer behind it
FollowingLines == {B("USER a") \o CRLF, B("NOOP") \o CRLF}
PipelinedInputs ==
    {a \o b : a \in Lines(Verbs, CommandArgs, 1, {CRLF, <<LF>>}),
              b \in FollowingLines}

GreetingStarts == {B("+OK"), B("+ok"), B("-ERR")}
GreetingArgs == {B(" "), B("a"), B("[a]"), B("<a>"), B("<")}
GreetingInputs == Lines(GreetingStarts, GreetingArgs, MaxArgs + 1, LineEndings)

\* a greeting line with the first line of a response behind it
GreetingFollowed ==
    {a \o e \o b :
        a \in {B("+OK <a"), B("+OK a<"), B("+OK <a>"), B("+OK a")},
        e \in {CRLF, <<LF>>},
        b \in {B("+OK >") \o CRLF, B("-ERR a") \o CRLF}}

StatusStarts == {B("+OK"), B("-ERR"), B("-err")}
StatusArgs == {B(" "), B(" 1"), B("a"), B("[a]")}
StatusInputs == Lines(StatusStarts, StatusArgs, MaxArgs + 1, LineEndings)

CapabilityStarts ==
    {B("TOP"), B("top"), B("USER"), B("SASL"), B("RESP-CODES"),
     B("LOGIN-DELAY"), B("PIPELINING"), B("EXPIRE"), B("UIDL"),
     B("IMPLEMENTATION"), B("STLS"), B("AUTH-RESP-CODE"), B("UTF8"),
     B("LANG"), B("X"), <<>>}
CapabilityArgs == {B(" "), B(" 1"), B(" a"), B(" USER"), B(" NEVER")}
CapabilityInputs ==
    Lines(CapabilityStarts, CapabilityArgs, MaxArgs, LineEndings)

\* the status lines that open a multi-line response
HeadLines == {B("+OK") \o CRLF, B("+OK a") \o <<LF>>, B("-ERR a") \o CRLF}

\* lines that follow the status line, by the per-line parser they are for
BodyLines(P) ==
    {B(".") \o CRLF, B(".") \o <<LF>>} \cup
    CASE P = "dot_stuffed" ->
            {B("..") \o CRLF, B("a") \o CRLF, CRLF}
      [] P = "scan_listing" ->
            {B("1 1") \o CRLF, B("1 1") \o <<LF>>, B("a") \o CRLF}
      [] P = "unique_id_listing" ->
            {B("1 a") \o CRLF, B("1 .") \o <<LF>>, B("1") \o CRLF}
      [] P = "language_listing" ->
            {B("en a") \o CRLF, B("en .") \o <<LF>>, B("e") \o CRLF}
      [] P = "capability" ->
            {B("TOP") \o CRLF, B("X a") \o CRLF, CRLF}

MultiLineInputs(P) ==
    {h \o Concat(l) :
        h \in HeadLines, l \in ListsOver(BodyLines(P), MaxBodyLines)}

SingleLineEntries ==
    {"response_user", "response_pass", "response_stat", "response_list",
     "response_dele", "response_noop", "response_rset", "response_quit",
     "response_apop", "response_uidl", "response_stls", "response_utf8",
     "response_lang"}

\* the per-line parser a multi-line entry point hands to multi_line
LineParserOf(f) ==
    CASE f \in {"response_retr", "response_top", "response_auth_all"} ->
            "dot_stuffed"
      [] f = "response_list_all" -> "scan_listing"
      [] f = "response_uidl_all" -> "unique_id_listing"
      [] f = "response_lang_all" -> "language_listing"
      [] f = "response_capa" -> "capability"

SingleLineTargets ==
    {[fn |-> "single_line", parser |-> P, payload_required |-> b] :
        P \in BodyParsers, b \in BOOLEAN}

\* decimal numerals with the u32 they denote, None above 4294967295
Numerals ==
    {<<B("0"), Some(U32Zero)>>, <<B("01"), Some(U32(0, 1))>>,
     <<B("4294967295"), Some(U32Max)>>,
     <<B("4294967296"), None>>, <<B("99999999999"), None>>}

\* calls on lines with number fields: <<entry point, bytes>>
NumberCalls ==
    {<<Public("command"), v \o B(" ") \o n[1] \o CRLF>> :
        v \in {B("RETR"), B("DELE"), B("LIST"), B("UIDL")}, n \in Numerals}
    \cup {<<Public("command"),
            B("TOP ") \o n[1] \o B(" ") \o m[1] \o CRLF>> :
            n \in Numerals, m \in Numerals}
    \cup {<<Public(f), B("+OK ") \o n[1] \o B(" ") \o m[1] \o CRLF>> :
            f \in {"response_stat", "response_list"},
            n \in Numerals, m \in Numerals}
    \cup {<<Public("response_uidl"), B("+OK ") \o n[1] \o B(" a") \o CRLF>> :
            n \in Numerals}
    \cup {<<Public("response_list_all"),
            B("+OK") \o CRLF \o n[1] \o B(" ") \o m[1] \o CRLF
                \o B(".") \o CRLF>> :
            n \in Numerals, m \in Numerals}
    \cup {<<Public("response_uidl_all"),
            B("+OK") \o CRLF \o n[1] \o B(" a") \o CRLF \o B(".") \o CRLF>> :
            n \in Numerals}
    \cup {<<Public("capability"), t \o n[1] \o u \o CRLF>> :
            t \in {B("LOGIN-DELAY "), B("EXPIRE ")}, n \in Numerals,
            u \in {<<>>, B(" USER")}}

\* message bodies of lines of dots, of spaces and with a leading dot
DotStuffedInputs ==
    {B("+OK") \o CRLF \o Concat(l) \o B(".") \o CRLF :
        l \in ListsOver({B("...") \o CRLF, B(" ") \o CRLF, B(".a") \o CRLF},
                        MaxArgs)}

\* status lines with and without a bracketed code before the comment
HeadStarts == {B("+OK [a/b] "), B("-ERR [a] "), B("+OK "), B("-ERR ")}
HeadArgs == {B("["), B("<"), B("a"), B(" "), B("[a]")}
HeadInputs == Lines(HeadStarts, HeadArgs, MaxArgs, {CRLF, <<LF>>})

\* unique-ids around both length bounds and around both ends of the range
Rep(b, n) == [k \in 1..n |-> b]
Uids ==
    {Rep(97, n) : n \in {0, UidMin, UidMax - 1, UidMax, UidMax + 1}}
    \cup {<<b>> : b \in {9, 32, 33, 126, 127, 128}}
    \cup {B("a b"), <<97, 127>>, Rep(126, UidMax), Rep(33, UidMax + 1)}

UidLine(u) == B("1 ") \o u \o CRLF
UidlInput(u) == B("+OK ") \o UidLine(u)
UidlAllInput(l) ==
    B("+OK") \o CRLF \o Concat([k \in 1..Len(l) |-> UidLine(l[k])])
        \o B(".") \o CRLF
UidLists == {<<u>> : u \in Uids} \cup {<<B("a"), u>> : u \in Uids}
UidCalls ==
    {<<Public("response_uidl"), UidlInput(u)>> : u \in Uids}
    \cup {<<Public("response_uidl_all"), UidlAllInput(l)>> : l \in UidLists}

\* the calls TLC explores: <<entry point, bytes>>
WireCalls ==
    ({Public("command")} \X CommandInputs)
    \cup ({Public("command")} \X PipelinedInputs)
    \cup NumberCalls
    \cup UidCalls
    \cup ({Public("response_user")} \X HeadInputs)
    \cup ({Public("response_retr")} \X DotStuffedInputs)
    \cup ({Public("greeting")} \X GreetingInputs)
    \cup ({Public("greeting")} \X GreetingFollowed)
    \cup ({Public("capability")} \X CapabilityInputs)
    \cup ({Public(f) : f \in SingleLineEntries} \X StatusInputs)
    \cup (SingleLineTargets \X StatusInputs)
    \cup UNION {{Public(f)} \X MultiLineInputs(LineParserOf(f)) :
                    f \in ResponseEntries \ SingleLineEntries}

InitWire ==
    /\ pc = "start"
    /\ \E c \in WireCalls : entry = c[1] /\ input = c[2]
    /\ value = NoResult
    /\ wire = <<>>
    /\ result = NoResult
    /\ cut = 0
    /\ result2 = NoResult
    /\ SessionIdle

\* the bytes of i a successful result r consumed
Consumed(i, r) == Take(i, Len(i) - Len(r.rem))

\* entry(&input)
Parse ==
    /\ pc = "start"
    /\ result' = call(entry, input)
    /\ pc' = "parsed"
    /\ UNCHANGED <<entry, input, value, wire, cut, result2,
                   client, server, rem_client, rem_server, step, last>>

\* entry(&input[..cut]) for a cut inside the bytes the first call consumed
Truncate ==
    /\ pc = "parsed"
    /\ IsOk(result)
    /\ \E n \in 0..(Len(Consumed(input, result)) - 1) :
          /\ cut' = n
          /\ result2' = call(entry, Take(input, n))
    /\ pc' = "truncated"
    /\ UNCHANGED <<entry, input, value, wire, result,
                   client, server, rem_client, rem_server, step, last>>

\* capability(&input) gave k: k.to_string() + "\r\n"
Reserialize ==
    /\ pc = "parsed"
    /\ entry.fn = "capability"
    /\ IsOk(result)
    /\ wire' = capability_to_string(result.val) \o CRLF
    /\ pc' = "reserialized"
    /\ UNCHANGED <<entry, input, value, result, cut, result2,
                   client, server, rem_client, rem_server, step, last>>

\* command(&input) gave c: command(&c.serialize())
ReparseCommand ==
    /\ pc = "parsed"
    /\ entry.fn = "command"
    /\ IsOk(result)
    /\ wire' = serialize(result.val)
    /\ result2' = command(serialize(result.val))
    /\ pc' = "reparsed"
    /\ UNCHANGED <<entry, input, value, result, cut,
                   client, server, rem_client, rem_server, step, last>>

NextWire ==
    \/ Parse
    \/ Truncate
    \/ Reserialize
    \/ ReparseCommand

SpecWire == InitWire /\ [][NextWire]_vars

-----------------------------------------------------------------------------
(* SpecSession: the caller loop of test_example_session over a client and  *)
(* a server buffer                                                         *)

MaxCmds == 2

\* the greetings a server buffer starts with
Greetings == {B("+OK a <a>") \o CRLF, B("+OK") \o <<LF>>}

\* a command line and a response to it
Exchanges ==
    {<<B("USER a") \o CRLF, B("+OK") \o CRLF>>,
     <<B("PASS a") \o CRLF, B("-ERR [a] a") \o CRLF>>,
     <<B("APOP a a") \o CRLF, B("+OK a") \o CRLF>>,
     <<B("STAT") \o CRLF, B("+OK 1 1") \o CRLF>>,
     <<B("stat") \o <<LF>>, B("-ERR") \o <<LF>>>>,
     <<B("LIST") \o CRLF,
       B("+OK a") \o CRLF \o B("1 1") \o CRLF \o B(".") \o CRLF>>,
     <<B("LIST") \o CRLF, B("-ERR a") \o CRLF>>,
     <<B("LIST 1") \o CRLF, B("+OK 1 1") \o CRLF>>,
     <<B("RETR 1") \o CRLF,
       B("+OK") \o CRLF \o B("..") \o CRLF \o B("+OK") \o CRLF
           \o B(".") \o CRLF>>,
     <<B("RETR 1") \o <<LF>>, B("+OK") \o <<LF>> \o B(".") \o <<LF>>>>,
     <<B("DELE 1") \o CRLF, B("+OK a") \o CRLF>>,
     <<B("NOOP") \o CRLF, B("+OK") \o CRLF>>,
     <<B("RSET") \o CRLF, B("+OK") \o CRLF>>,
     <<B("QUIT") \o CRLF, B("+OK a") \o CRLF>>,
     <<B("TOP 1 1") \o CRLF,
       B("+OK") \o CRLF \o B("a") \o CRLF \o B(".") \o CRLF>>,
     <<B("UIDL") \o CRLF,
       B("+OK") \o CRLF \o B("1 a") \o CRLF \o B(".") \o CRLF>>,
     <<B("UIDL 1") \o CRLF, B("+OK 1 a") \o CRLF>>,
     <<B("STLS") \o CRLF, B("+OK") \o CRLF>>,
     <<B("UTF8") \o CRLF, B("-ERR a") \o CRLF>>,
     <<B("LANG") \o CRLF,
       B("+OK") \o CRLF \o B("en a") \o CRLF \o B(".") \o CRLF>>,
     <<B("LANG en") \o CRLF, B("+OK en a") \o CRLF>>,
     <<B("LANG *") \o CRLF, B("-ERR") \o CRLF>>,
     <<B("AUTH") \o CRLF,
       B("+OK") \o CRLF \o B("a") \o CRLF \o B(".") \o CRLF>>}

\* the response parser the loop calls after command returned c
ResponseOf(c) ==
    CASE c.cmd = "User" -> "response_user"
      [] c.cmd = "Pass" -> "response_pass"
      [] c.cmd = "Stat" -> "response_stat"
      [] c.cmd = "ListAll" -> "response_list_all"
      [] c.cmd = "List" -> "response_list"
      [] c.cmd = "Retr" -> "response_retr"
      [] c.cmd = "Dele" -> "response_dele"
      [] c.cmd = "Noop" -> "response_noop"
      [] c.cmd = "Rset" -> "response_rset"
      [] c.cmd = "Quit" -> "response_quit"
      [] c.cmd = "Apop" -> "response_apop"
      [] c.cmd = "Top" -> "response_top"
      [] c.cmd = "UidlAll" -> "response_uidl_all"
      [] c.cmd = "Uidl" -> "response_uidl"
      [] c.cmd = "Capa" -> "response_user"
      [] c.cmd = "Stls" -> "response_stls"
      [] c.cmd = "AuthAll" -> "response_auth_all"
      [] c.cmd = "Auth" -> "unimplemented"
      [] c.cmd = "Utf8" -> "response_utf8"
      [] c.cmd = "LangAll" -> "response_lang_all"
      [] c.cmd = "Lang" -> "response_lang"

InitSession ==
    /\ \E g \in Greetings, l \in ListsOver(Exchanges, MaxCmds) :
          /\ client = [k \in 1..Len(l) |-> l[k][1]]
          /\ server = <<g>> \o [k \in 1..Len(l) |-> l[k][2]]
    /\ rem_client = Concat(client)
    /\ rem_server = Concat(server)
    /\ pc = "greeting"
    /\ step = 0
    /\ last = NoResult
    /\ entry = Public("greeting")
    /\ input = <<>>
    /\ value = NoResult
    /\ wire = <<>>
    /\ result = NoResult
    /\ cut = 0
    /\ result2 = NoResult

\* where the loop goes on after a parse that left rc in the client buffer
LoopHead(rc) == IF rc = <<>> THEN "done" ELSE "command"

\* let (rem, greeting) = greeting(rem_server).unwrap(); rem_server = rem;
ParseGreeting ==
    /\ pc = "greeting"
    /\ entry' = Public("greeting")
    /\ input' = rem_server
    /\ result' = greeting(rem_server)
    /\ IF IsOk(result')
       THEN rem_server' = result'.rem /\ pc' = LoopHead(rem_client)
       ELSE rem_server' = rem_server /\ pc' = "panicked"
    /\ UNCHANGED <<value, wire, cut, result2, client, server, rem_client,
                   step, last>>

\* let (rem, cmd) = command(rem_client).unwrap(); rem_client = rem;
ParseCommand ==
    /\ pc = "command"
    /\ entry' = Public("command")
    /\ input' = rem_client
    /\ result' = command(rem_client)
    /\ IF IsOk(result')
       THEN /\ rem_client' = result'.rem
            /\ last' = result'.val
            /\ step' = step + 1
            /\ pc' = "response"
       ELSE /\ UNCHANGED <<rem_client, last, step>>
            /\ pc' = "panicked"
    /\ UNCHANGED <<value, wire, cut, result2, client, server, rem_server>>

\* match cmd { X => { let (rem, resp) = response_x(rem_server).unwrap();
\* rem_server = rem; } }
ParseResponse ==
    /\ pc = "response"
    /\ IF ResponseOf(last) = "unimplemented"
       THEN /\ pc' = "panicked"
            /\ UNCHANGED <<entry, input, result, rem_server>>
       ELSE /\ entry' = Public(ResponseOf(last))
            /\ input' = rem_server
            /\ result' = call(entry', rem_server)
            /\ IF IsOk(result')
               THEN rem_server' = result'.rem /\ pc' = LoopHead(rem_client)
               ELSE rem_server' = rem_server /\ pc' = "panicked"
    /\ UNCHANGED <<value, wire, cut, result2, client, server, rem_client,
                   step, last>>

NextSession ==
    \/ ParseGreeting
    \/ ParseCommand
    \/ ParseResponse

SpecSession == InitSession /\ [][NextSession]_vars

-----------------------------------------------------------------------------
(* SpecLoop: a caller hands a buffer to one parser and calls it again on   *)
(* the remainder it returned, until the buffer is empty or a call fails    *)

\* a multi-line response for the per-line parser P: at most one body line
Messages(P) ==
    {h \o l \o B(".") \o CRLF : h \in HeadLines, l \in BodyLines(P) \cup {<<>>}}

\* what is behind the first response in the server buffer
FollowingResponses == {B("+OK") \o CRLF \o B(".") \o CRLF, B("-ERR a") \o CRLF}

\* a status line with at most one piece after the indicator, then a response
StatusFollowed ==
    {a \o b : a \in Lines(StatusStarts, StatusArgs, 1, {CRLF, <<LF>>}),
              b \in FollowingResponses}

\* the buffers handed to command, greeting, single_line and multi_line
LoopCalls ==
    ({Public("command")} \X PipelinedInputs)
    \cup ({Public("greeting")} \X GreetingFollowed)
    \cup ({Public(f) : f \in SingleLineEntries} \X StatusFollowed)
    \cup (SingleLineTargets \X StatusFollowed)
    \cup UNION {{Public(f)} \X
                    {a \o b : a \in Messages(LineParserOf(f)),
                              b \in FollowingResponses} :
                    f \in ResponseEntries \ SingleLineEntries}

InitLoop ==
    /\ \E c \in LoopCalls :
          /\ entry = c[1]
          /\ wire = c[2]
          /\ rem_client = c[2]
          /\ pc = LoopHead(c[2])
    /\ input = <<>>
    /\ result = NoResult
    /\ client = <<>>
    /\ server = <<>>
    /\ rem_server = <<>>
    /\ step = 0
    /\ last = NoResult
    /\ value = NoResult
    /\ cut = 0
    /\ result2 = NoResult

\* while !rem_client.is_empty() { let (rem, v) = parser(rem_client).unwrap();
\* rem_client = rem; }
CallAgain ==
    /\ pc = "command"
    /\ input' = rem_client
    /\ result' = call(entry, rem_client)
    /\ IF IsOk(result')
       THEN rem_client' = result'.rem /\ pc' = LoopHead(result'.rem)
       ELSE rem_client' = rem_client /\ pc' = "panicked"
    /\ UNCHANGED <<entry, value, wire, cut, result2, client, server,
                   rem_server, step, last>>

NextLoop == CallAgain

\* the loop is sequential code: while it can make a call it makes it
SpecLoop == InitLoop /\ [][NextLoop]_vars /\ WF_vars(NextLoop)

-----------------------------------------------------------------------------
(* Lines of a byte string, as the claims below speak of them *)

\* index of the first LF of i, 0 for none
FirstLF(i) ==
    LET at == {k \in 1..Len(i) : i[k] = LF} IN
    IF at = {} THEN 0 ELSE MinOf(at)

RECURSIVE LinesOf(_)
\* the complete lines of i in order, each with its terminator
LinesOf(i) ==
    IF FirstLF(i) = 0 THEN <<>>
    ELSE <<Take(i, FirstLF(i))>> \o LinesOf(Drop(i, FirstLF(i)))

\* a line without its terminator, "\n" or "\r\n"
Content(line) ==
    IF Len(line) >= 2 /\ line[Len(line) - 1] = CR
    THEN Take(line, Len(line) - 2)
    ELSE Take(line, Len(line) - 1)

\* i begins with the status indicator "-ERR", in any case
IsErrLine(i) == compare_no_case(i, B("-ERR")) = "Ok"

\* i is one complete line ended by CRLF
IsCrlfLine(i) ==
    /\ FirstLF(i) = Len(i)
    /\ Len(i) >= 2
    /\ i[Len(i) - 1] = CR

MultiLineEntries == ResponseEntries \ SingleLineEntries

-----------------------------------------------------------------------------
\* the tag of a capability line has no lower-case letter
UpperCaseTag(i) ==
    \A k \in 1..Len(i) :
        (\A j \in 1..k : i[j] \notin {32, CR, LF}) => i[k] \notin 97..122

(* C3: capability round trip, text to value to text.  For every capability *)
(* line (upper-case tag, ended by CRLF) that capability accepts with an    *)
(* empty remainder, the parsed value's to_string() followed by CRLF is     *)
(* byte-identical to the line.                                             *)
CapabilityTextRoundTrip ==
    (/\ pc = "reserialized"
     /\ result.rem = <<>>
     /\ IsCrlfLine(input)
     /\ UpperCaseTag(input)) => wire = input

\* the capability lines of a CAPA response with the values they stand for
CapaLines ==
    {<<B("TOP") \o CRLF, CapabilityTop>>,
     <<B("X a") \o CRLF, CapabilityOther(B("X"), <<B("a")>>)>>}

\* a "+OK" status line, the lines of l, and the line "."
CapaResponse(l) ==
    B("+OK") \o CRLF \o Concat([k \in 1..Len(l) |-> l[k][1]])
        \o B(".") \o CRLF

(* C4: CAPA response.  response_capa applied to a "+OK" status line, then  *)
(* n >= 0 capability lines each ended by one CRLF, then the line ".",      *)
(* returns Response::Ok(MultiLine) whose body is those n capabilities in   *)
(* order, with an empty remainder.                                         *)
CapaResponseFraming ==
    (pc = "parsed" /\ entry = Public("response_capa")) =>
        \A l \in ListsOver(CapaLines, MaxBodyLines - 1) :
            input = CapaResponse(l) =>
                result = Ok(<<>>, ResponseOk(MultiLine(
                                SingleLine(<<>>, <<>>),
                                [k \in 1..Len(l) |-> l[k][2]])))

\* the multi-line entry points whose per-line parser is one of dot_stuffed,
\* scan_listing, unique_id_listing, language_listing
ListingEntries == MultiLineEntries \ {"response_capa"}

\* index in LinesOf(i) of the first line after the status line that is "."
FirstDot(i) ==
    LET ls == LinesOf(i)
        at == {k \in 2..Len(ls) : Content(ls[k]) = B(".")}
    IN  IF at = {} THEN 0 ELSE MinOf(at)

(* C5: termination law.  Whenever multi_line with one of the per-line      *)
(* parsers dot_stuffed, scan_listing, unique_id_listing, language_listing  *)
(* returns Response::Ok, the consumed bytes end with the first body line   *)
(* that is exactly "." and its terminator, the remainder begins right      *)
(* after that terminator, and body has one element per line before the     *)
(* "." line and none for it.                                               *)
TerminationLaw ==
    (/\ pc = "parsed"
     /\ entry.fn \in ListingEntries
     /\ IsOk(result)
     /\ result.val.resp = "Ok") =>
        LET ls == LinesOf(input)
            d == FirstDot(input)
        IN  /\ d # 0
            /\ Consumed(input, result) = Concat(SubSeq(ls, 1, d))
            /\ result.rem = Drop(input, Len(Concat(SubSeq(ls, 1, d))))
            /\ Len(result.val.ok.body) = d - 2
            /\ LineParserOf(entry.fn) = "dot_stuffed" =>
                  \A k \in 1..(d - 2) :
                      /\ result.val.ok.body[k] = Content(ls[k + 1])
                      /\ result.val.ok.body[k] # B(".")

\* a body line is consumed, then the terminating ".", and bytes remain
TerminationLawWitness ==
    /\ pc = "parsed"
    /\ entry = Public("response_retr")
    /\ input = B("+OK") \o CRLF \o B("..") \o CRLF \o B(".") \o <<LF>>
                \o B("a") \o CRLF
    /\ result = Ok(B("a") \o CRLF,
                   ResponseOk(MultiLine(SingleLine(<<>>, <<>>), <<B("..")>>)))

(* C6: on a "-ERR" status line multi_line returns Response::Err(head) at   *)
(* once: it consumes the status line only, and the remainder is every byte *)
(* after the status line's terminator, even when those bytes look like     *)
(* body lines and a "." terminator.                                        *)
ErrStatusEndsMultiLine ==
    (/\ pc = "parsed"
     /\ entry.fn \in MultiLineEntries
     /\ IsErrLine(input)
     /\ FirstLF(input) # 0) =>
        LET line == Take(input, FirstLF(input))
            h == single_line(line, "head", FALSE)
        IN  IsOk(h) =>
                result = Ok(Drop(input, FirstLF(input)), ResponseErr(h.val.err))

\* body lines and a "." line follow the "-ERR" line and are all left over
ErrStatusEndsMultiLineWitness ==
    /\ pc = "parsed"
    /\ entry = Public("response_list_all")
    /\ input = B("-ERR a") \o CRLF \o B("1 1") \o CRLF \o B(".") \o CRLF
    /\ result = Ok(B("1 1") \o CRLF \o B(".") \o CRLF,
                   ResponseErr(SingleLine(<<>>, B("a"))))

(* C7: status exclusivity.  For every body parser and both values of       *)
(* payload_required, single_line on a "-ERR" line succeeds with            *)
(* Response::Err(h), h being what head yields for the rest of the line;    *)
(* "-ERR" directly followed by the line end succeeds with empty code and   *)
(* comment even when payload_required is true.                             *)
StatusExclusivity ==
    (/\ pc = "parsed"
     /\ entry.fn \in {"single_line"} \cup SingleLineEntries
     /\ IsErrLine(input)) =>
        LET h == head(Drop(input, 4)) IN
        /\ (IsOk(h) /\ IsOk(line_ending(h.rem))) =>
              result = Ok(line_ending(h.rem).rem, ResponseErr(h.val))
        /\ (Drop(input, 4) \in {CRLF, <<LF>>}) =>
              result = Ok(<<>>, ResponseErr(SingleLine(<<>>, <<>>)))

\* "-ERR\r\n" given to a parser with a mandatory payload
StatusExclusivityWitness ==
    /\ pc = "parsed"
    /\ entry = [fn |-> "single_line", parser |-> "drop_listing",
                payload_required |-> TRUE]
    /\ input = B("-ERR") \o CRLF
    /\ result = Ok(<<>>, ResponseErr(SingleLine(<<>>, <<>>)))

(* C8: Incomplete on truncation.  For every input on which command,        *)
(* greeting or a response_* entry point succeeds, the same entry point on  *)
(* any proper prefix of the consumed bytes returns Incomplete.             *)
TruncationIsIncomplete ==
    (pc = "truncated" /\ entry.fn \in EntryPoints) => result2 = Incomplete

\* a multi-line response cut after a complete body line
TruncationIsIncompleteWitness ==
    /\ pc = "truncated"
    /\ entry = Public("response_uidl_all")
    /\ Consumed(input, result) =
          B("+OK") \o CRLF \o B("1 a") \o CRLF \o B(".") \o CRLF
    /\ cut = 10
    /\ result2 = Incomplete

(* C9: unrecognized keyword.  On a complete CRLF-terminated line that does *)
(* not start, in any case, with one of the 17 verbs, command returns       *)
(* Error, not Incomplete and not a Command.                                *)
UnrecognizedKeyword ==
    (/\ pc = "parsed"
     /\ entry = Public("command")
     /\ IsCrlfLine(input)
     /\ \A v \in Verbs : compare_no_case(input, v) # "Ok") =>
        result = Error

\* a line shorter than every verb
UnrecognizedKeywordWitness ==
    /\ pc = "parsed"
    /\ entry = Public("command")
    /\ input = B("US") \o CRLF
    /\ result = Error

\* the rest of a buffer of messages after the first n of them
Rest(msgs, n) == Concat(SubSeq(msgs, n + 1, Len(msgs)))

(* C10: session framing.  With a client buffer of command lines (no CAPA,  *)
(* no AUTH with a mechanism) and a server buffer of a greeting and one     *)
(* response per command, each message accepted by its parser when alone,   *)
(* the loop never fails: every parse returns the value the message gives   *)
(* alone, every remainder starts at the next message, and the loop ends    *)
(* with both buffers empty.                                                *)
SessionFraming ==
    /\ pc # "panicked"
    /\ rem_client = Rest(client, step)
    /\ (pc = "greeting") => rem_server = Concat(server)
    /\ (pc \in {"command", "done"}) =>
          /\ rem_server = Rest(server, step + 1)
          /\ result = Ok(rem_server, call(entry, server[step + 1]).val)
          /\ call(entry, server[step + 1]).rem = <<>>
    /\ (pc = "response") =>
          /\ rem_server = Rest(server, step)
          /\ result = Ok(rem_client, command(client[step]).val)
          /\ command(client[step]).rem = <<>>
          /\ last = result.val
    /\ (pc = "done") =>
          /\ step = Len(client)
          /\ rem_client = <<>>
          /\ rem_server = <<>>

\* two exchanges are done, the first with a multi-line response whose body
\* holds a status line, and both buffers are empty
SessionFramingWitness ==
    /\ pc = "done"
    /\ step = 2
    /\ client = <<B("RETR 1") \o CRLF, B("QUIT") \o CRLF>>
    /\ server[2] = B("+OK") \o CRLF \o B("..") \o CRLF \o B("+OK") \o CRLF
                       \o B(".") \o CRLF
    /\ result = Ok(<<>>, ResponseOk(SingleLine(<<>>, B("a"))))
    /\ rem_client = <<>>
    /\ rem_server = <<>>

-----------------------------------------------------------------------------
\* index of the first byte b of s, 0 for none
FirstOf(s, b) ==
    LET at == {k \in 1..Len(s) : s[k] = b} IN
    IF at = {} THEN 0 ELSE MinOf(at)

RECURSIVE SplitAt(_, _)
\* the pieces of s between the bytes b
SplitAt(s, b) ==
    IF FirstOf(s, b) = 0 THEN <<s>>
    ELSE <<Take(s, FirstOf(s, b) - 1)>> \o SplitAt(Drop(s, FirstOf(s, b)), b)

\* s is l1 "/" l2 "/" ..., each level a non-empty string of rchar
IsLevels(s) ==
    \A k \in 1..Len(SplitAt(s, 47)) :
        /\ SplitAt(s, 47)[k] # <<>>
        /\ \A j \in 1..Len(SplitAt(s, 47)[k]) :
              SplitAt(s, 47)[k][j] \in is_rchar

\* what a greeting text stands for, <<comment, timestamp>>: the text has
\* no "<", or it is prefix "<" ts ">" suffix, prefix and suffix of gchar
\* and ts without ">"
TextReadings(t) ==
    LET lt == FirstOf(t, 60)
        gt == lt + FirstOf(Drop(t, lt), 62)
    IN  IF \E k \in 1..Len(t) : t[k] \notin is_gchar \cup {60}
        THEN {}
        ELSE IF lt = 0 THEN {<<t, None>>}
        ELSE IF gt = lt \/ FirstOf(Drop(t, gt), 60) # 0 THEN {}
        ELSE {<<Take(t, lt - 1) \o B("<>") \o Drop(t, gt),
                Some(SubSeq(t, lt + 1, gt - 1))>>}

\* the Greeting values the bytes b between "+OK" and CRLF stand for by
\* "+OK" [SP "[" levels "]"] [SP text]: b may read with and without a code
GreetingReadings(b) ==
    IF b = <<>> THEN {Greeting(<<>>, <<>>, None)}
    ELSE IF b[1] # 32 THEN {}
    ELSE LET t == Drop(b, 1)
             close == FirstOf(t, 93)
             levels == SubSeq(t, 2, close - 1)
             rest == Drop(t, close)
         IN  {Greeting(<<>>, r[1], r[2]) : r \in TextReadings(t)}
             \cup
             (IF t = <<>> \/ t[1] # 91 \/ close = 0 THEN {}
              ELSE IF ~IsLevels(levels) THEN {}
              ELSE IF rest = <<>>
                   THEN {Greeting(SplitAt(levels, 47), <<>>, None)}
              ELSE IF rest[1] # 32 THEN {}
              ELSE {Greeting(SplitAt(levels, 47), r[1], r[2]) :
                        r \in TextReadings(Drop(rest, 1))})

(* C11: greeting reconstruction.  For a greeting line "+OK", an optional   *)
(* space and bracketed code, a space, prefix "<" ts ">" suffix and CRLF,   *)
(* prefix and suffix without "<" and ts without ">", greeting returns the  *)
(* levels as code, Some(ts) as timestamp and prefix "<>" suffix as         *)
(* comment; for a line without timestamp it returns None and the text      *)
(* after the space as comment; "+OK" alone gives empty code and comment    *)
(* and no timestamp.  A line that reads both with and without a code may   *)
(* give either reading.                                                    *)
GreetingReconstruction ==
    (/\ pc = "parsed"
     /\ entry = Public("greeting")
     /\ IsCrlfLine(input)
     /\ compare(input, B("+OK")) = "Ok"
     /\ GreetingReadings(Drop(Content(input), 3)) # {}) =>
        /\ IsOk(result)
        /\ result.rem = <<>>
        /\ result.val \in GreetingReadings(Drop(Content(input), 3))

-----------------------------------------------------------------------------
\* every byte of s is in S
AllIn(s, S) == \A k \in 1..Len(s) : s[k] \in S

\* the bytes of a command line after its four-letter verb and one space
Operand(line) == Drop(Content(line), 5)

\* the line is the four-letter verb kw, in any case, and nothing else
IsBare(line, kw) ==
    Len(Content(line)) = 4 /\ compare_no_case(line, kw) = "Ok"

\* the line is the four-letter verb kw, one space and a non-empty operand
HasOperand(line, kw) ==
    /\ Len(Content(line)) > 5
    /\ compare_no_case(line, kw \o B(" ")) = "Ok"

\* the operand of AUTH: a mechanism, then nothing or a space and an
\* initial response of base64 characters and up to two "="
AuthOperands(op) ==
    LET sp == FirstOf(op, 32)
        mech == IF sp = 0 THEN op ELSE Take(op, sp - 1)
        ir == Drop(op, sp)
        pad == FirstOf(ir, 61)
        chars == IF pad = 0 THEN ir ELSE Take(ir, pad - 1)
    IN  IF mech = <<>> \/ ~AllIn(mech, is_auth_char) THEN {}
        ELSE IF sp = 0 THEN {Auth(mech, None)}
        ELSE IF /\ AllIn(chars, is_base64_char)
                /\ Drop(ir, Len(chars)) \in {<<>>, B("="), B("==")}
             THEN {Auth(mech, Some(ir))}
        ELSE {}

\* the Command a line with a valid operand stands for, as a set
Specific(line) ==
    LET op == Operand(line) IN
    (IF /\ HasOperand(line, B("LIST")) /\ AllIn(op, is_digit)
        /\ parse_u32(op).some
     THEN {List(parse_u32(op).v)} ELSE {})
    \cup
    (IF /\ HasOperand(line, B("UIDL")) /\ AllIn(op, is_digit)
        /\ parse_u32(op).some
     THEN {Uidl(parse_u32(op).v)} ELSE {})
    \cup
    (IF HasOperand(line, B("LANG")) /\ op = B("*")
     THEN {Lang(LanguageWild)} ELSE {})
    \cup
    (IF /\ HasOperand(line, B("LANG")) /\ Len(op) <= 8
        /\ AllIn(op, is_alpha)
     THEN {Lang(LanguageLang(op))} ELSE {})
    \cup
    (IF HasOperand(line, B("AUTH")) THEN AuthOperands(op) ELSE {})

\* the All variant a bare verb stands for, as a set
BareAll(line) ==
    (IF IsBare(line, B("LIST")) THEN {ListAll} ELSE {}) \cup
    (IF IsBare(line, B("UIDL")) THEN {UidlAll} ELSE {}) \cup
    (IF IsBare(line, B("LANG")) THEN {LangAll} ELSE {}) \cup
    (IF IsBare(line, B("AUTH")) THEN {AuthAll} ELSE {})

(* C12: All versus specific variants.  command maps a LIST, UIDL, LANG or  *)
(* AUTH line without operand to ListAll, UidlAll, LangAll or AuthAll, and  *)
(* a line with a valid operand to List, Uidl, Lang or Auth carrying that   *)
(* operand ("LANG *" gives Lang{Wild}); a line with an operand never gives *)
(* the All variant and a line without one never the specific variant.      *)
AllVersusSpecific ==
    (pc = "parsed" /\ entry = Public("command") /\ FirstLF(input) # 0) =>
        LET line == Take(input, FirstLF(input)) IN
        /\ \A c \in BareAll(line) \cup Specific(line) :
              result = Ok(Drop(input, Len(line)), c)
        /\ (/\ IsOk(result)
            /\ result.val.cmd \in {"ListAll", "UidlAll", "LangAll", "AuthAll"})
              => result.val \in BareAll(Consumed(input, result))
        /\ (/\ IsOk(result)
            /\ result.val.cmd \in {"List", "Uidl", "Lang", "Auth"})
              => /\ Len(Content(Consumed(input, result))) > 5
                 /\ Content(Consumed(input, result))[5] = 32

\* "LANG *" gives the specific variant with the wildcard
AllVersusSpecificWitness ==
    /\ pc = "parsed"
    /\ entry = Public("command")
    /\ input = B("LANG *") \o CRLF
    /\ result = Ok(<<>>, Lang(LanguageWild))

-----------------------------------------------------------------------------
(* C13: APOP operands.  command parses an APOP line into Apop{name,        *)
(* digest}: it consumes that one line, name is the bytes between the       *)
(* space after the keyword and the next space of the line, and digest is   *)
(* the rest of the line.                                                   *)
ApopOperands ==
    (/\ pc = "parsed"
     /\ entry = Public("command")
     /\ IsOk(result)
     /\ result.val.cmd = "Apop") =>
        LET line == Take(input, FirstLF(input)) IN
        /\ Consumed(input, result) = line
        /\ Operand(line) = result.val.name \o B(" ") \o result.val.digest
        /\ FirstOf(result.val.name, 32) = 0

-----------------------------------------------------------------------------
\* a non-empty token of base64 characters, then "", "=" or "=="
IsBase64Token(t) ==
    LET pad == FirstOf(t, 61)
        chars == IF pad = 0 THEN t ELSE Take(t, pad - 1)
    IN  /\ t # <<>>
        /\ AllIn(chars, is_base64_char)
        /\ Drop(t, Len(chars)) \in {<<>>, B("="), B("==")}

(* C14: AUTH initial response.  command maps "AUTH mechanism" to Auth with *)
(* initial_response None, "AUTH mechanism =" to Some("=") and "AUTH        *)
(* mechanism token", token being base64, to Some(token); a returned Auth   *)
(* has no initial response exactly when its line has no second operand;    *)
(* bare "AUTH" gives AuthAll.                                              *)
AuthInitialResponse ==
    (/\ pc = "parsed"
     /\ entry = Public("command")
     /\ FirstLF(input) # 0
     /\ compare_no_case(input, B("AUTH")) = "Ok") =>
        LET line == Take(input, FirstLF(input))
            rest == Drop(input, FirstLF(input))
            op == Operand(line)
            sp == FirstOf(op, 32)
            mech == Take(op, sp - 1)
            ir == Drop(op, sp)
        IN  /\ IsBare(line, B("AUTH")) => result = Ok(rest, AuthAll)
            /\ (HasOperand(line, B("AUTH")) /\ AllIn(op, is_auth_char)) =>
                  result = Ok(rest, Auth(op, None))
            /\ (/\ HasOperand(line, B("AUTH"))
                /\ sp > 1
                /\ AllIn(mech, is_auth_char)
                /\ IsBase64Token(ir)) =>
                  result = Ok(rest, Auth(mech, Some(ir)))
            /\ (IsOk(result) /\ result.val.cmd = "Auth") =>
                  /\ Consumed(input, result) = line
                  /\ result.val.initial_response = None <=> sp = 0
                  /\ result.val.initial_response = Some(B("=")) <=>
                        (sp # 0 /\ ir = B("="))

\* an explicit "=" after the mechanism
AuthInitialResponseWitness ==
    /\ pc = "parsed"
    /\ entry = Public("command")
    /\ input = B("AUTH a =") \o CRLF
    /\ result = Ok(<<>>, Auth(B("a"), Some(B("="))))

-----------------------------------------------------------------------------
\* the result on a line whose number fields are ns and whose value is v
\* when they all fit
Exactly(ns, v) ==
    IF \A k \in 1..Len(ns) : ns[k][2].some THEN Ok(<<>>, v) ELSE Error

\* what the claim gives for a call c on a line with the numerals n and m
NumberResults(c) ==
    {Exactly(<<n>>, Retr(n[2].v)) : n \in
        {n \in Numerals : c[2] = B("RETR ") \o n[1] \o CRLF}}
    \cup {Exactly(<<n>>, Dele(n[2].v)) : n \in
        {n \in Numerals : c[2] = B("DELE ") \o n[1] \o CRLF}}
    \cup {Exactly(<<n>>, List(n[2].v)) : n \in
        {n \in Numerals : c[2] = B("LIST ") \o n[1] \o CRLF}}
    \cup {Exactly(<<n>>, Uidl(n[2].v)) : n \in
        {n \in Numerals : c[2] = B("UIDL ") \o n[1] \o CRLF}}
    \cup {Exactly(<<p[1], p[2]>>, Top(p[1][2].v, p[2][2].v)) : p \in
        {p \in Numerals \X Numerals :
            c[2] = B("TOP ") \o p[1][1] \o B(" ") \o p[2][1] \o CRLF}}
    \cup {Exactly(<<p[1], p[2]>>,
                  ResponseOk(DropListing(p[1][2].v, p[2][2].v))) : p \in
        {p \in Numerals \X Numerals :
            /\ c[1] = Public("response_stat")
            /\ c[2] = B("+OK ") \o p[1][1] \o B(" ") \o p[2][1] \o CRLF}}
    \cup {Exactly(<<p[1], p[2]>>,
                  ResponseOk(ScanListing(p[1][2].v, p[2][2].v))) : p \in
        {p \in Numerals \X Numerals :
            /\ c[1] = Public("response_list")
            /\ c[2] = B("+OK ") \o p[1][1] \o B(" ") \o p[2][1] \o CRLF}}
    \cup {Exactly(<<n>>, ResponseOk(UniqueIdListing(n[2].v, B("a")))) : n \in
        {n \in Numerals :
            /\ c[1] = Public("response_uidl")
            /\ c[2] = B("+OK ") \o n[1] \o B(" a") \o CRLF}}
    \cup {Exactly(<<p[1], p[2]>>,
                  ResponseOk(MultiLine(SingleLine(<<>>, <<>>),
                      <<ScanListing(p[1][2].v, p[2][2].v)>>))) : p \in
        {p \in Numerals \X Numerals :
            /\ c[1] = Public("response_list_all")
            /\ c[2] = B("+OK") \o CRLF \o p[1][1] \o B(" ") \o p[2][1]
                        \o CRLF \o B(".") \o CRLF}}
    \cup {Exactly(<<n>>,
                  ResponseOk(MultiLine(SingleLine(<<>>, <<>>),
                      <<UniqueIdListing(n[2].v, B("a"))>>))) : n \in
        {n \in Numerals :
            /\ c[1] = Public("response_uidl_all")
            /\ c[2] = B("+OK") \o CRLF \o n[1] \o B(" a") \o CRLF
                        \o B(".") \o CRLF}}
    \cup {Exactly(<<q[1]>>, CapabilityLoginDelay(q[1][2].v, q[2])) : q \in
        {q \in Numerals \X BOOLEAN :
            c[2] = B("LOGIN-DELAY ") \o q[1][1]
                    \o (IF q[2] THEN B(" USER") ELSE <<>>) \o CRLF}}
    \cup {Exactly(<<q[1]>>,
                  CapabilityExpire(ExpirePolicyMinimumDays(q[1][2].v),
                                   q[2])) : q \in
        {q \in Numerals \X BOOLEAN :
            c[2] = B("EXPIRE ") \o q[1][1]
                    \o (IF q[2] THEN B(" USER") ELSE <<>>) \o CRLF}}

(* C15: numeric overflow.  A decimal numeral greater than 4294967295 is    *)
(* never accepted: command on a RETR, DELE, LIST, UIDL or TOP line, the    *)
(* listing parsers and the capability parser return Error on a line with   *)
(* such a number field, and on a line whose number fields are 0 or         *)
(* 4294967295 they return the value holding exactly these numbers.         *)
NumericOverflow ==
    (pc = "parsed" /\ <<entry, input>> \in NumberCalls) =>
        result \in NumberResults(<<entry, input>>)

-----------------------------------------------------------------------------
\* the decimal numerals of the u32 operands
Decimals ==
    {<<U32(0, 0), B("0")>>, <<U32(0, 1), B("1")>>, <<U32(0, 9), B("9")>>,
     <<U32(0, 10), B("10")>>, <<U32(0, 65535), B("65535")>>,
     <<U32(1, 0), B("65536")>>, <<U32Max, B("4294967295")>>}

DecimalOf(n) == (CHOOSE d \in Decimals : d[1] = n)[2]

\* the POP3 keyword of a Command
KeywordOf(c) ==
    CASE c.cmd = "User" -> B("USER")
      [] c.cmd = "Pass" -> B("PASS")
      [] c.cmd = "Stat" -> B("STAT")
      [] c.cmd \in {"ListAll", "List"} -> B("LIST")
      [] c.cmd = "Retr" -> B("RETR")
      [] c.cmd = "Dele" -> B("DELE")
      [] c.cmd = "Noop" -> B("NOOP")
      [] c.cmd = "Rset" -> B("RSET")
      [] c.cmd = "Quit" -> B("QUIT")
      [] c.cmd = "Apop" -> B("APOP")
      [] c.cmd = "Top" -> B("TOP")
      [] c.cmd \in {"UidlAll", "Uidl"} -> B("UIDL")
      [] c.cmd = "Capa" -> B("CAPA")
      [] c.cmd = "Stls" -> B("STLS")
      [] c.cmd \in {"AuthAll", "Auth"} -> B("AUTH")
      [] c.cmd = "Utf8" -> B("UTF8")
      [] c.cmd \in {"LangAll", "Lang"} -> B("LANG")

\* the operands of a Command as text, in order
OperandsOf(c) ==
    CASE c.cmd \in {"User", "Pass"} -> <<c.f0>>
      [] c.cmd \in {"List", "Retr", "Dele", "Uidl"} -> <<DecimalOf(c.msg)>>
      [] c.cmd = "Apop" -> <<c.name, c.digest>>
      [] c.cmd = "Top" -> <<DecimalOf(c.msg), DecimalOf(c.n)>>
      [] c.cmd = "Auth" ->
            IF c.initial_response = None THEN <<c.mechanism>>
            ELSE <<c.mechanism, c.initial_response.v>>
      [] c.cmd = "Lang" ->
            IF c.lang_or_wild = LanguageWild THEN <<B("*")>>
            ELSE <<c.lang_or_wild.f0>>
      [] OTHER -> <<>>

(* C16: canonical serialization.  serialize renders every Command as its   *)
(* upper-case keyword, then each operand preceded by exactly one space,    *)
(* then CRLF; ListAll, UidlAll, AuthAll and LangAll render as the bare     *)
(* keywords LIST, UIDL, AUTH and LANG; Auth renders the initial response   *)
(* if and only if it is present.                                           *)
CanonicalSerialization ==
    (pc \in {"serialized", "parsed"} /\ IsCommand(value)) =>
        wire = KeywordOf(value)
                \o Concat([k \in 1..Len(OperandsOf(value)) |->
                            B(" ") \o OperandsOf(value)[k]])
                \o CRLF

\* an Auth with an initial response is written with both operands
CanonicalSerializationWitness ==
    /\ pc = "serialized"
    /\ value = Auth(B("a"), Some(B("=")))
    /\ wire = B("AUTH a =") \o CRLF

-----------------------------------------------------------------------------
(* C17: CRLF termination.  command, greeting and single_line accept a line *)
(* only when it is terminated by CRLF: the bytes a successful call         *)
(* consumed end with CR LF, never with a bare LF.                          *)
CrlfTermination ==
    (/\ pc = "parsed"
     /\ entry.fn \in {"command", "greeting", "single_line"}
                        \cup SingleLineEntries
     /\ IsOk(result)) =>
        LET line == Consumed(input, result) IN
        /\ Len(line) >= 2
        /\ line[Len(line) - 1] = CR
        /\ line[Len(line)] = LF

-----------------------------------------------------------------------------
\* the entry points that hand dot_stuffed to multi_line
DotStuffedEntries == {"response_retr", "response_top", "response_auth_all"}

(* C18: no dot-unstuffing.  multi_line with dot_stuffed, on a "+OK" status *)
(* line, body lines of printable ASCII none of which is exactly ".", and   *)
(* the line ".", returns every body line verbatim and in order: a line     *)
(* that starts with "." and has further text keeps its leading dot, empty  *)
(* lines and lines of spaces are returned as such, and the first line that *)
(* is exactly "." is not a body line but ends the body.                    *)
NoDotUnstuffing ==
    (/\ pc = "parsed"
     /\ entry.fn \in DotStuffedEntries
     /\ FirstDot(input) # 0
     /\ ~IsErrLine(input)
     /\ IsOk(single_line(LinesOf(input)[1], "head", FALSE))
     /\ \A k \in 2..(FirstDot(input) - 1) :
            AllIn(Content(LinesOf(input)[k]), 32..126)) =>
        LET ls == LinesOf(input)
            d == FirstDot(input)
        IN  /\ IsOk(result)
            /\ result.rem = Drop(input, Len(Concat(SubSeq(ls, 1, d))))
            /\ result.val.resp = "Ok"
            /\ result.val.ok.body = [k \in 1..(d - 2) |-> Content(ls[k + 1])]

\* a line of three dots and a line of one space
NoDotUnstuffingWitness ==
    /\ pc = "parsed"
    /\ entry = Public("response_retr")
    /\ input = B("+OK") \o CRLF \o B("...") \o CRLF \o B(" ") \o CRLF
                \o B(".") \o CRLF
    /\ result = Ok(<<>>, ResponseOk(MultiLine(SingleLine(<<>>, <<>>),
                                             <<B("..."), B(" ")>>)))

-----------------------------------------------------------------------------
\* the calls of single_line with payload_required = true
PayloadRequired(e) ==
    \/ e.fn \in {"response_stat", "response_list", "response_uidl"}
    \/ e.fn = "single_line" /\ e.payload_required

\* the body parser of such a call
BodyParserOf(e) ==
    CASE e.fn = "response_stat" -> "drop_listing"
      [] e.fn = "response_list" -> "scan_listing"
      [] e.fn = "response_uidl" -> "unique_id_listing"
      [] e.fn = "single_line" -> e.parser

\* the listing of two numbers a body parser makes
PairListing(P, n, m) ==
    IF P = "drop_listing" THEN DropListing(n, m) ELSE ScanListing(n, m)

(* C19: mandatory payload.  With payload_required = true, single_line on a *)
(* "+OK" status takes one space and then a payload that the body parser    *)
(* accepts up to the line end: "+OK" directly followed by the line end is  *)
(* Error, a listing followed by further text is Error, and "+OK n m"       *)
(* gives Response::Ok of the listing that holds n and m.                   *)
MandatoryPayload ==
    (/\ pc = "parsed"
     /\ PayloadRequired(entry)
     /\ compare_no_case(input, B("+OK")) = "Ok"
     /\ FirstLF(input) # 0) =>
        LET line == Take(input, FirstLF(input))
            after == Drop(Content(line), 3)
            payload == Drop(after, 1)
            P == BodyParserOf(entry)
        IN  /\ after = <<>> => result = Error
            /\ IsOk(result) =>
                  /\ Consumed(input, result) = line
                  /\ after # <<>> /\ after[1] = 32
                  /\ apply_parser(P, payload \o CRLF)
                        = Ok(CRLF, result.val.ok)
            /\ \A n \in Decimals, m \in Decimals :
                  (/\ P \in {"drop_listing", "scan_listing"}
                   /\ after = B(" ") \o n[2] \o B(" ") \o m[2]) =>
                      result = Ok(Drop(input, Len(line)),
                                  ResponseOk(PairListing(P, n[1], m[1])))
            /\ \A n \in Decimals, m \in Decimals :
                  (/\ P \in {"drop_listing", "scan_listing"}
                   /\ Len(after) > Len(n[2]) + Len(m[2]) + 2
                   /\ Take(after, Len(n[2]) + Len(m[2]) + 2)
                          = B(" ") \o n[2] \o B(" ") \o m[2]
                   /\ after[Len(n[2]) + Len(m[2]) + 3] \notin is_digit) =>
                      result = Error

\* "+OK 1 1" read by response_stat
MandatoryPayloadWitness ==
    /\ pc = "parsed"
    /\ entry = Public("response_stat")
    /\ input = B("+OK 1 1") \o CRLF
    /\ result = Ok(<<>>, ResponseOk(DropListing(U32(0, 1), U32(0, 1))))

-----------------------------------------------------------------------------
\* the calls of single_line that read the rest of the status line with head
ReadsHead(e, i) ==
    \/ /\ IsErrLine(i)
       /\ e.fn \in SingleLineEntries \cup {"single_line"}
    \/ /\ compare_no_case(i, B("+OK")) = "Ok"
       /\ \/ e.fn \in SingleLineEntries
                        \ {"response_stat", "response_list", "response_uidl"}
          \/ /\ e.fn = "single_line"
             /\ e.parser = "head"
             /\ ~e.payload_required

\* the SingleLine the bytes a between the status and the line end stand
\* for, as a set: none when they are no header text
HeadReadings(a) ==
    LET t == Drop(a, 1)
        close == FirstOf(t, 93)
        levels == SubSeq(t, 2, close - 1)
    IN  IF a = <<>> THEN {SingleLine(<<>>, <<>>)}
        ELSE IF a[1] # 32 THEN {}
        ELSE IF /\ t # <<>> /\ t[1] = 91
                /\ close # 0
                /\ IsLevels(levels)
                /\ Len(t) > close /\ t[close + 1] = 32
             THEN {SingleLine(SplitAt(levels, 47), Drop(t, close + 1))}
        ELSE IF AllIn(t, (32..126) \ {91}) THEN {SingleLine(<<>>, t)}
        ELSE {}

(* C20: header text grammar.  On a status line of printable ASCII, head    *)
(* yields a non-empty code only from a bracketed list "[l1/l2/...]" right  *)
(* after the status space and followed by one space, the comment being     *)
(* the rest of the line verbatim, "[" and "<" included; without such a     *)
(* code the comment is the text after the space and holds no "[", and a    *)
(* line whose comment without code holds "[" is Error.                     *)
HeaderTextGrammar ==
    (/\ pc = "parsed"
     /\ ReadsHead(entry, input)
     /\ FirstLF(input) # 0
     /\ AllIn(Content(Take(input, FirstLF(input))), 32..126)) =>
        LET line == Take(input, FirstLF(input))
            after == Drop(Content(line), IF IsErrLine(input) THEN 4 ELSE 3)
        IN  /\ HeadReadings(after) = {} => result = Error
            /\ \A h \in HeadReadings(after) :
                  result = Ok(Drop(input, Len(line)),
                              IF IsErrLine(input) THEN ResponseErr(h)
                              ELSE ResponseOk(h))

\* a comment of "[" and "<" after a code of two levels
HeaderTextGrammarWitness ==
    /\ pc = "parsed"
    /\ entry = Public("response_user")
    /\ input = B("+OK [a/b] [<") \o CRLF
    /\ result = Ok(<<>>, ResponseOk(SingleLine(<<B("a"), B("b")>>, B("[<"))))

-----------------------------------------------------------------------------
\* a unique-id of 1 to 70 bytes, each in 0x21..0x7E
ValidUid(u) ==
    /\ Len(u) >= 1
    /\ Len(u) <= 70
    /\ \A k \in 1..Len(u) : u[k] >= 33 /\ u[k] <= 126

\* what a reply with the listings "1 SP u" of l has to give
UidlExpected(l) ==
    IF \A k \in 1..Len(l) : ValidUid(l[k])
    THEN [k \in 1..Len(l) |-> UniqueIdListing(U32(0, 1), l[k])]
    ELSE <<>>

\* C21: response_uidl and each body line of response_uidl_all accept
\* "n SP uid" exactly when uid is 1 to 70 bytes long with every byte in
\* 0x21..0x7E, and give UniqueIdListing{n, uid} then; an empty uid, one of
\* 71 bytes and one with a byte outside the range are a syntax error
UniqueIdBounds ==
    pc = "parsed" =>
        /\ \A u \in Uids :
              (entry = Public("response_uidl") /\ input = UidlInput(u)) =>
                  IF ValidUid(u)
                  THEN result = Ok(<<>>, ResponseOk(UidlExpected(<<u>>)[1]))
                  ELSE result = Error
        /\ \A l \in UidLists :
              (entry = Public("response_uidl_all")
                  /\ input = UidlAllInput(l)) =>
                  IF \A k \in 1..Len(l) : ValidUid(l[k])
                  THEN /\ IsOk(result)
                       /\ result.rem = <<>>
                       /\ result.val.resp = "Ok"
                       /\ result.val.ok.body = UidlExpected(l)
                  ELSE result = Error

\* a unique-id of exactly 70 bytes was read as the second line of a listing
UniqueIdBoundsWitness ==
    /\ pc = "parsed"
    /\ entry = Public("response_uidl_all")
    /\ input = UidlAllInput(<<B("a"), Rep(126, UidMax)>>)
    /\ IsOk(result)
    /\ Len(result.val.ok.body) = 2
    /\ Len(result.val.ok.body[2].message_uid) = 70

-----------------------------------------------------------------------------
\* the tags of the capabilities that have a variant of their own
KnownTags ==
    {B("TOP"), B("USER"), B("SASL"), B("RESP-CODES"), B("LOGIN-DELAY"),
     B("PIPELINING"), B("EXPIRE"), B("UIDL"), B("IMPLEMENTATION"),
     B("STLS"), B("AUTH-RESP-CODE"), B("LANG"), B("UTF8")}

\* t with its letters a..z as A..Z
UpperCase(t) ==
    [k \in 1..Len(t) |-> IF t[k] \in 97..122 THEN t[k] - 32 ELSE t[k]]

\* C22: capability returns Other{tag, parameters} only for unrecognized
\* tags: the tag of an Other is not, in any letter case, one of the
\* thirteen known tags
CatchAllCapability ==
    (/\ pc = "parsed"
     /\ entry = Public("capability")
     /\ IsOk(result)
     /\ result.val.capability = "Other") =>
        UpperCase(result.val.tag) \notin KnownTags

-----------------------------------------------------------------------------
\* s has neither a CR nor an LF
NoLineBreak(s) == \A k \in 1..Len(s) : s[k] \notin {CR, LF}

\* C23: one command, one line.  On every successful call of command the
\* consumed prefix has no CR or LF byte other than the line terminator at
\* its end, so the bytes of a following command line are never absorbed
\* into the returned command
OneCommandOneLine ==
    (pc = "parsed" /\ entry = Public("command") /\ IsOk(result)) =>
        /\ Consumed(input, result) # <<>>
        /\ Consumed(input, result)[Len(Consumed(input, result))] = LF
        /\ NoLineBreak(Content(Consumed(input, result)))

-----------------------------------------------------------------------------
\* C24: command returns Incomplete only when the input has no LF byte: on
\* an input with at least one complete line the result is a success or a
\* syntax error
IncompleteOnlyWithoutLine ==
    (pc = "parsed" /\ entry = Public("command") /\ FirstLF(input) # 0) =>
        result # Incomplete

-----------------------------------------------------------------------------
\* C25: one greeting, one line.  On every successful call of greeting the
\* consumed prefix has no CR or LF byte other than the line terminator at
\* its end, so neither comment nor timestamp holds a CR or LF, and a
\* complete first line with an unclosed "<" is rejected
OneGreetingOneLine ==
    (pc = "parsed" /\ entry = Public("greeting")) =>
        /\ IsOk(result) =>
              /\ Consumed(input, result) # <<>>
              /\ Consumed(input, result)[Len(Consumed(input, result))] = LF
              /\ NoLineBreak(Content(Consumed(input, result)))
              /\ NoLineBreak(result.val.comment)
              /\ result.val.timestamp.some =>
                    NoLineBreak(result.val.timestamp.v)
        /\ (/\ FirstLF(input) # 0
            /\ FirstOf(Take(input, FirstLF(input)), 60) # 0
            /\ FirstOf(Take(input, FirstLF(input)), 62) = 0) =>
              result = Error

-----------------------------------------------------------------------------
\* C26: serialization emits one line.  For every Command value, whatever
\* its operand strings are, serialize() returns bytes that end with CRLF
\* and have no other CR or LF byte
SerializeOneLine ==
    (pc = "serialized" /\ IsCommand(value)) =>
        /\ Len(wire) >= 2
        /\ SubSeq(wire, Len(wire) - 1, Len(wire)) = CRLF
        /\ NoLineBreak(Take(wire, Len(wire) - 2))

-----------------------------------------------------------------------------
\* greeting and single_line(head, false) both fail on i, or both succeed
\* with the same code, comment and remainder
HeadAgrees(i) ==
    LET g == greeting(i)
        h == single_line(i, "head", FALSE)
    IN  IF IsOk(g)
        THEN /\ IsOk(h)
             /\ h.val.resp = "Ok"
             /\ h.val.ok.code = g.val.code
             /\ h.val.ok.comment = g.val.comment
             /\ h.rem = g.rem
        ELSE ~IsOk(h)

-----------------------------------------------------------------------------
\* C28: round trip on parsed values.  For every input on which command
\* succeeds with a value c, command(c.serialize()) succeeds with an empty
\* remainder and returns a value equal to c
ParsedRoundTrip ==
    pc = "reparsed" => result2 = Ok(<<>>, result.val)

\* a line in lower case with a leading zero, ended by a bare LF, comes
\* back in canonical bytes that parse to the same value
ParsedRoundTripWitness ==
    /\ pc = "reparsed"
    /\ input \in {B("RETR 01") \o CRLF, B("user a") \o <<LF>>}
    /\ wire # input
    /\ result2 = Ok(<<>>, result.val)

-----------------------------------------------------------------------------
\* the remainder of the last call is a proper suffix of the bytes it got
ProperSuffix ==
    IsOk(result) =>
        /\ Len(result.rem) < Len(input)
        /\ result.rem = Drop(input, Len(input) - Len(result.rem))

\* C29: progress of the caller loop.  Every successful call of command,
\* greeting, single_line or multi_line returns a remainder that is a proper
\* suffix of its input, and a caller that calls the parser again on each
\* returned remainder of a finite buffer reaches an empty buffer or a
\* failed call after finitely many calls
CallerProgress ==
    /\ []ProperSuffix
    /\ <>(pc \in {"done", "panicked"})

\* two pipelined command lines were read by two calls and the buffer is
\* empty
CallerProgressWitness ==
    /\ pc = "done"
    /\ entry = Public("command")
    /\ wire = B("NOOP") \o CRLF \o B("NOOP") \o CRLF
    /\ input = B("NOOP") \o CRLF
    /\ result = Ok(<<>>, Noop)

-----------------------------------------------------------------------------
\* the number of bytes b in s
CountOf(s, b) == Cardinality({k \in 1..Len(s) : s[k] = b})

\* C30: greeting field invariant.  For every Greeting returned by greeting,
\* timestamp is present if and only if comment has the byte "<"; when it is
\* present, comment has exactly one "<", immediately followed by ">", and
\* the timestamp string has no ">"
GreetingFields ==
    (pc = "parsed" /\ entry = Public("greeting") /\ IsOk(result)) =>
        LET comment == result.val.comment
            timestamp_ == result.val.timestamp
        IN  /\ timestamp_.some <=> FirstOf(comment, 60) # 0
            /\ timestamp_.some =>
                  /\ CountOf(comment, 60) = 1
                  /\ FirstOf(comment, 60) < Len(comment)
                  /\ comment[FirstOf(comment, 60) + 1] = 62
                  /\ FirstOf(timestamp_.v, 62) = 0

\* a timestamp between two comment fragments
GreetingFieldsWitness ==
    /\ pc = "parsed"
    /\ entry = Public("greeting")
    /\ input = B("+OK a<a>") \o CRLF
    /\ result = Ok(<<>>, Greeting(<<>>, B("a<>"), Some(B("a"))))

=============================================================================
